---- MODULE Spec2Model ----
(***************************************************************************)
(* The clip production pipeline of the repository: VideoProcessor          *)
(* (video_processor.py), VideoEditor (video_editor.py) and                 *)
(* SubtitleGenerator (subtitle_generator.py).                              *)
(*                                                                         *)
(* Times are whole seconds.  The clip duration is an int (bot.py:70), and  *)
(* every planning comparison is between a multiple of it and a probed      *)
(* duration, so only the whole part of a probed duration decides a plan.   *)
(*                                                                         *)
(* Three specifications share the variables:                               *)
(*   SpecPlan   the two clip planners as pure functions of their inputs;   *)
(*   SpecChunk  one call of _process_chunk_parallel, with its renders;     *)
(*   Spec       one job (process_video_file): chunk extraction, the chunk  *)
(*              loop and the chunk pipeline of every chunk.                *)
(***************************************************************************)
EXTENDS Integers, Sequences, FiniteSets, TLC

---------------------------------------------------------------------------
(* Program constants *)

ChunkSeconds == 300          \* video_processor.py:67, and the 300 of line 667
GpuRenderGate == 8           \* video_processor.py:688
CpuRenderGate == 3           \* video_processor.py:691
GpuSplitCap == 10
CpuSplitCap == 3
MaxRetries == 3
TitleStartTime == 8          \* video_editor.py:448
TargetScreenWidth == 1080
TargetScreenHeight == 1920

(* Bounds of the model *)

MaxPlanTotal == 48           \* longest duration given to the planners in SpecPlan
MaxPlanClip == 31            \* longest clip duration given to the planners in SpecPlan
MaxFaults == 1               \* transient failures the environment injects in one run
MaxTimeouts == 2             \* waits that time out in one run
MaxCaptionTime == 8          \* latest caption time in SpecCaptions
MaxClipStart == 4            \* latest clip offset in SpecCaptions
MaxClipLen == 4              \* longest clip in SpecCaptions
MaxUploadClips == 3          \* longest list of clips given to the publisher in SpecPublish
MaxOrdinal == 4              \* greatest clip ordinal in SpecPublish
MaxSplitTotal == 905         \* longest source, in whole seconds, in SpecSplitPlan
MaxSourceSide == 40          \* every side of a source up to it is tried in SpecForeground
MaxClipNumber == 12          \* greatest clip ordinal in SpecTitles
MaxRateNum == 30             \* greatest numerator of a frame rate in SpecProbe
MaxRateDen == 3              \* greatest denominator of a frame rate in SpecProbe
MaxClipsTotal == 4           \* longest video given to create_clips_parallel in SpecClips
MaxParallelGiven == 3        \* greatest max_parallel given to it in SpecClips
MaxUpdates == 4              \* messages a user sends to the bot in SpecBot
JobClips == 2                \* clips of one job in SpecBot

---------------------------------------------------------------------------
VARIABLES
    fnIn, fnOut,             \* SpecPlan: the input and the output of a pure function
    \* the machine
    hw,                      \* its acceleration: [smi, nvenc, micro]
    faults,                  \* transient failures injected so far
    timeouts,                \* waits that timed out so far
    files,                   \* the files that exist on disk
    corrupt,                 \* the files that ffmpeg.probe cannot read
    encoding,                \* the clip encodes that are running
    procs,                   \* the chunk-extraction processes that are running
    \* what the run has done so far
    transcriptions,          \* the chunk paths given to subtitle_generator.generate
    planned,                 \* the clip tasks planned: [chunk_index, clip_number]
    failed,                  \* the clip numbers whose render failed
    blocked,                 \* the blocking calls made on the event-loop thread
    probes,                  \* the callers of VideoProcessor._check_gpu_support, in order
    \* _process_chunk_parallel
    cpc,                     \* its position
    call,                    \* its arguments, with the probed duration of chunk_path
    subtitles,               \* its local subtitles
    transcript,              \* what its transcription did
    piece_tasks,             \* its local piece_tasks: the clip plan
    max_concurrent_ffmpeg,   \* size of its semaphore
    semaphore,               \* free permits of its semaphore
    rs,                      \* the render task of each planned piece
    created_clips,           \* the value it returns
    \* split_into_chunks
    chunk_tasks,             \* its local chunk_tasks
    max_concurrent,          \* its cap
    batch,                   \* index of the first task of the batch being gathered
    ext,                     \* the _create_chunk_ultra_fast call of each task
    tried,                   \* the ffmpeg commands started for each task, in order
    \* process_video_file
    pc,                      \* its position
    src,                     \* the probed source: [duration, frac]
    config,                  \* its config
    chunks,                  \* its local chunks
    i,                       \* index of the chunk being processed
    all_clips,               \* its local all_clips
    total_expected_clips,    \* its local total_expected_clips
    upload_results,          \* its local upload_results
    links_file,              \* its local links_file
    result,                  \* the value it returns
    \* TelegramBot
    dicts,                   \* the settings dicts created so far, by identity
    user_settings,           \* the dict stored for the user: an index of dicts, or 0
    updates,                 \* the messages received: those not yet handled, and their count
    handling,                \* the job of the handle_message that is running
    shots,                   \* the clips rendered by the jobs of the bot
    waiting_for_music        \* the users whose next message is taken as their music

botVars == <<dicts, user_settings, updates, handling, shots, waiting_for_music>>
\* what the pipeline never touches: the pure functions and the bot
planVars == <<fnIn, fnOut, botVars>>
envVars == <<hw, faults, timeouts, files, corrupt, encoding, procs>>
logVars == <<transcriptions, planned, failed>>
chunkVars == <<cpc, call, subtitles, transcript, piece_tasks,
               max_concurrent_ffmpeg, semaphore, rs, created_clips>>
splitVars == <<chunk_tasks, max_concurrent, batch, ext, tried>>
jobVars == <<pc, src, config, chunks, i, all_clips, total_expected_clips>>
publishVars == <<upload_results, links_file, result>>
pipelineCore == <<envVars, logVars, blocked, probes, chunkVars, splitVars, jobVars, publishVars>>
pipelineVars == <<pipelineCore, botVars>>
vars == <<planVars, pipelineVars>>

\* what a step of the chunk pipeline, of the split and of the job leave alone
besideChunk == <<planVars, splitVars, jobVars, publishVars, timeouts, procs, corrupt>>
aroundChunk == <<besideChunk, probes>>
outsideChunk == <<aroundChunk, blocked>>
besideSplit == <<planVars, chunkVars, logVars, publishVars, encoding>>
aroundSplit == <<besideSplit, probes>>
outsideSplit == <<aroundSplit, blocked>>
aroundJob == <<planVars, envVars, publishVars, probes>>
outsideJob == <<aroundJob, blocked>>

---------------------------------------------------------------------------
(* Files *)

SourceFile == [kind |-> "source", index |-> 0]
ChunkFile(index) == [kind |-> "chunk", index |-> index]
\* video_processor.py:742  output_dir / f"clip_{clip_number:03d}.mp4"
ClipPath(clip_number) == [kind |-> "clip", index |-> clip_number]
NoneValue == [kind |-> "none", index |-> 0]

---------------------------------------------------------------------------
(* The clip planners *)

PieceFitsRemainder(current_time, duration, chunk_duration) ==
    current_time < chunk_duration

\* video_processor.py:670  while current_time + duration <= chunk_duration
PieceFits(current_time, duration, chunk_duration) ==
    current_time + duration <= chunk_duration

RECURSIVE PieceLoop(_, _, _, _)
\* video_processor.py:670-680
PieceLoop(current_time, clip_index, duration, chunk_duration) ==
    IF PieceFits(current_time, duration, chunk_duration)
    THEN <<[start_time |-> current_time,
            duration |-> duration,
            clip_number |-> clip_index + 1]>>
         \o PieceLoop(current_time + duration, clip_index + 1, duration, chunk_duration)
    ELSE <<>>

StartClipIndexByChunk(chunk_index, duration) == chunk_index

\* video_processor.py:667  chunk_index * int(300 // duration)
StartClipIndex(chunk_index, duration) == chunk_index * (ChunkSeconds \div duration)

\* video_processor.py:663-680
PlanPieces(chunk_duration, duration, chunk_index) ==
    PieceLoop(0, StartClipIndex(chunk_index, duration), duration, chunk_duration)

RECURSIVE ClipLoop(_, _, _, _)
\* video_editor.py:102-121
ClipLoop(current_time, clip_index, clip_duration, total_duration) ==
    IF current_time < total_duration
    THEN IF total_duration - current_time < clip_duration
         THEN <<>>
         ELSE <<[start_time |-> current_time,
                 duration |-> clip_duration,
                 clip_number |-> clip_index + 1,
                 output_path |-> ClipPath(clip_index)]>>
              \o ClipLoop(current_time + clip_duration, clip_index + 1,
                          clip_duration, total_duration)
    ELSE <<>>

\* video_editor.py:97-121
ClipsToCreate(total_duration, clip_duration, start_index) ==
    ClipLoop(0, start_index, clip_duration, total_duration)

---------------------------------------------------------------------------
(* The machine's acceleration, and what an encode does on it *)

\* video_processor.py:482-542: nvidia-smi, the encoder list and the micro-encode
ProcessorGpuSupport == hw.smi /\ hw.nvenc /\ hw.micro

\* video_editor.py:614-636: the encoder list alone
EditorGpuSupport == hw.nvenc

\* an input opened with hwaccel='cuda' (video_editor.py:305) decodes only on a GPU
CudaDecodeWorks == hw.smi

\* an h264_nvenc encode (video_editor.py:492) works only where the micro-encode does
NvencWorks == hw.smi /\ hw.nvenc /\ hw.micro

Machines ==
    {m \in [smi : BOOLEAN, nvenc : BOOLEAN, micro : BOOLEAN] :
        m.micro => (m.smi /\ m.nvenc)}

---------------------------------------------------------------------------
(* Transcription: SubtitleGenerator.generate *)

CaptionLists == {<<>>, <<[start |-> 40, end |-> 42]>>}

\* what whisper does for one call: a caption list, no model, or an exception
TranscriptionOutcomes ==
    {[kind |-> "ok", captions |-> c] : c \in CaptionLists}
        \cup {[kind |-> "unavailable", captions |-> <<>>],
              [kind |-> "raises", captions |-> <<>>]}

\* subtitle_generator.py:128-141 and 143-149, 230-232: every failure becomes []
Generate(outcome) ==
    [raised |-> FALSE,
     value |-> IF outcome.kind = "ok" THEN outcome.captions ELSE <<>>]

---------------------------------------------------------------------------
(* The renderer: VideoEditor._create_styled_clip_sync *)

Layer(name, from, to) == [layer |-> name, from |-> from, to |-> to]
Video(layers) == [valid |-> TRUE, layers |-> layers]
NoVideo == [valid |-> FALSE, layers |-> <<>>]

Max(a, b) == IF a >= b THEN a ELSE b
Min(a, b) == IF a <= b THEN a ELSE b

SegmentSubtitlesKeepsAll(subs, start_time, duration) ==
    [n \in 1..Len(subs) |->
        Layer("caption", Max(0, subs[n].start - start_time),
                         Min(duration, subs[n].end - start_time))]

RECURSIVE SegmentSubtitles(_, _, _)
\* video_editor.py:577-592
SegmentSubtitles(subs, start_time, duration) ==
    IF subs = <<>> THEN <<>>
    ELSE LET sub == Head(subs)
             sub_start == sub.start - start_time
             sub_end == sub.end - start_time
             rest == SegmentSubtitles(Tail(subs), start_time, duration)
         IN  IF sub_end > 0 /\ sub_start < duration
             THEN <<Layer("caption", Max(0, sub_start), Min(duration, sub_end))>> \o rest
             ELSE rest

AddAnimatedSubtitlesDropsVideo(video, subs, start_time, duration) ==
    IF subs = <<>> THEN NoVideo
    ELSE Video(video.layers \o SegmentSubtitles(subs, start_time, duration))

\* video_editor.py:571-612
AddAnimatedSubtitles(video, subs, start_time, duration) ==
    IF subs = <<>> THEN video
    ELSE Video(video.layers \o SegmentSubtitles(subs, start_time, duration))

\* video_editor.py:313-477: background, foreground, title, subtitle, captions
BuildGraph(subs, start_time, duration) ==
    AddAnimatedSubtitles(
        Video(<<Layer("blurred_bg", 0, duration),
                Layer("main_scaled", 0, duration),
                Layer("title", TitleStartTime, duration),
                Layer("subtitle", TitleStartTime, duration)>>),
        subs, start_time, duration)

\* video_editor.py:486-508: the attempt with h264_nvenc on the cuda input
HardwareEncodeCanSucceed(r) == CudaDecodeWorks /\ NvencWorks /\ r.swOk

\* video_editor.py:510-528: libx264 on the graph built from the cuda input (305-306)
FallbackEncodeSucceeds(r) == CudaDecodeWorks /\ r.swOk

\* video_editor.py:310 and 530-568: libx264 on the plain input
CpuEncodeSucceeds(r) == r.swOk

---------------------------------------------------------------------------
(* What is not running *)

NoCall == [chunk_path |-> NoneValue, duration |-> 0, chunk_index |-> 0,
           original_video_path |-> NoneValue, chunk_duration |-> 0]

NoPlanner ==
    /\ fnIn = [total |-> 0, clip |-> 1, index |-> 0]
    /\ fnOut = [done |-> FALSE]

QuietMachine ==
    /\ faults = 0
    /\ timeouts = 0
    /\ encoding = {}
    /\ procs = {}
    /\ corrupt = {}

NoJob == [config |-> 0, duration |-> 0, clip_number |-> 0]

NoBot ==
    /\ dicts = <<>>
    /\ user_settings = 0
    /\ updates = [queue |-> <<>>, sent |-> 0]
    /\ handling = NoJob
    /\ shots = <<>>
    /\ waiting_for_music = {}

\* a call made by a coroutine itself, not through run_in_executor, runs on
\* the thread of the event loop
OnLoop(calls) == blocked' = blocked \cup calls

\* video_processor.py:482-539: _check_gpu_support keeps no result: every
\* call of it runs nvidia-smi, ffmpeg -encoders and the test encode again
Probing(callers) == probes' = probes \o callers

\* the callers in callers, as many times as there are tasks in tasks
RECURSIVE Times(_, _)
Times(caller, tasks) ==
    IF tasks = {} THEN <<>>
    ELSE LET t == CHOOSE x \in tasks : TRUE
         IN  <<caller>> \o Times(caller, tasks \ {t})

NothingDone ==
    /\ transcriptions = <<>>
    /\ planned = {}
    /\ failed = {}
    /\ blocked = {}
    /\ probes = <<>>

ChunkLocals ==
    /\ subtitles = <<>>
    /\ transcript = "none"
    /\ piece_tasks = <<>>
    /\ max_concurrent_ffmpeg = 0
    /\ semaphore = 0
    /\ rs = <<>>
    /\ created_clips = <<>>

IdleChunk ==
    /\ cpc = "idle"
    /\ call = NoCall
    /\ ChunkLocals

IdleSplit ==
    /\ chunk_tasks = <<>>
    /\ max_concurrent = 0
    /\ batch = 0
    /\ ext = <<>>
    /\ tried = <<>>

IdleJob ==
    /\ pc = "idle"
    /\ src = [duration |-> 0, frac |-> FALSE]
    /\ config = [duration |-> 0]
    /\ chunks = <<>>
    /\ i = 0
    /\ all_clips = <<>>
    /\ total_expected_clips = 0
    /\ upload_results = <<>>
    /\ links_file = NoneValue
    /\ result = NoneValue

---------------------------------------------------------------------------
(* The chunk pipeline: VideoProcessor._process_chunk_parallel *)

PlannedTask ==
    [st |-> "planned", attempts |-> <<>>, swOk |-> TRUE, hwFault |-> FALSE,
     result |-> NoneValue]

Finished(r) == r.st \in {"ok", "failed"}
InFlight(r) == r.st \in {"hw", "fb", "cpu"}
Pieces == 1..Len(rs)

Encode(k) == [chunk_index |-> call.chunk_index,
              clip_number |-> piece_tasks[k].clip_number]

\* the filter graph of piece k: video_processor.py:745-753, video_editor.py:472-477
GraphOf(k) == BuildGraph(subtitles, piece_tasks[k].start_time, piece_tasks[k].duration)

\* video_processor.py:656
Transcribe ==
    /\ cpc = "generate"
    /\ \E outcome \in TranscriptionOutcomes :
          LET r == Generate(outcome)
          IN  /\ transcript' = outcome.kind
              /\ IF r.raised
                 THEN \* video_processor.py:728-731
                      /\ cpc' = "returned"
                      /\ subtitles' = <<>>
                 ELSE /\ cpc' = "plan"
                      /\ subtitles' = r.value
    /\ transcriptions' = Append(transcriptions, call.chunk_path)
    /\ UNCHANGED <<outsideChunk, hw, faults, files, encoding, planned, failed,
                   call, piece_tasks, max_concurrent_ffmpeg, semaphore, rs,
                   created_clips>>

\* video_processor.py:659-693: the plan and the gate
PlanAndGate ==
    /\ cpc = "plan"
    /\ IF call.chunk_path \in files /\ call.chunk_path \notin corrupt
       THEN LET plan == PlanPieces(call.chunk_duration, call.duration, call.chunk_index)
                size == IF ProcessorGpuSupport THEN GpuRenderGate ELSE CpuRenderGate
            IN  /\ piece_tasks' = plan
                /\ rs' = [k \in 1..Len(plan) |-> PlannedTask]
                /\ max_concurrent_ffmpeg' = size
                /\ semaphore' = size
                /\ planned' = planned \cup
                                {[chunk_index |-> call.chunk_index,
                                  clip_number |-> plan[k].clip_number] :
                                     k \in 1..Len(plan)}
                /\ cpc' = "gather"
       ELSE \* get_video_info raises: video_processor.py:728-731
            /\ cpc' = "returned"
            /\ UNCHANGED <<piece_tasks, rs, max_concurrent_ffmpeg, semaphore, planned>>
    /\ OnLoop(IF call.chunk_path \in files /\ call.chunk_path \notin corrupt
              THEN {"get_video_info", "_check_gpu_support"}
              ELSE {"get_video_info"})
    \* video_processor.py:686
    /\ Probing(IF call.chunk_path \in files /\ call.chunk_path \notin corrupt
               THEN <<"_process_chunk_parallel">>
               ELSE <<>>)
    /\ UNCHANGED <<besideChunk, hw, faults, files, encoding, transcriptions, failed,
                   call, subtitles, transcript, created_clips>>

PieceTranscribesAgain(log, chunk_path) == Append(log, chunk_path)

\* video_processor.py:745-753: a piece is rendered with the subtitles of its
\* chunk and makes no call of subtitle_generator.generate
PieceTranscriptions(log, chunk_path) == log

GateAlwaysOpen(free) == TRUE

\* video_processor.py:695-697  async with semaphore
GateOpen(free) == free > 0

\* The tasks of gather run in plan order and the semaphore wakes its waiters in
\* order: the next piece to pass the gate is the first that has not passed it.
NextPlanned(k) ==
    /\ rs[k].st = "planned"
    /\ \A j \in 1..(k - 1) : rs[j].st # "planned"

\* video_processor.py:695-697, 739-753 and video_editor.py:273-278, 291-483:
\* the piece passes the gate and its render runs up to its first encode
StartRender(k) ==
    /\ cpc = "gather"
    /\ NextPlanned(k)
    /\ GateOpen(semaphore)
    /\ \E ok \in BOOLEAN :
          /\ ok \/ faults < MaxFaults
          /\ faults' = IF ok THEN faults ELSE faults + 1
          /\ IF GraphOf(k).valid
                 THEN /\ rs' = [rs EXCEPT ![k] =
                                  [@ EXCEPT !.st = IF EditorGpuSupport THEN "hw" ELSE "cpu",
                                            !.attempts = IF EditorGpuSupport
                                                         THEN <<"hw">> ELSE <<"sw">>,
                                            !.swOk = ok]]
                      /\ encoding' = encoding \cup {Encode(k)}
                      /\ semaphore' = semaphore - 1
                      /\ failed' = failed
                 ELSE \* video_editor.py:483 on no video raises; 281-285, 755-759
                      /\ rs' = [rs EXCEPT ![k] =
                                  [@ EXCEPT !.st = "failed", !.swOk = ok]]
                      /\ failed' = failed \cup {piece_tasks[k].clip_number}
                      /\ UNCHANGED <<encoding, semaphore>>
    /\ transcriptions' = PieceTranscriptions(transcriptions, call.chunk_path)
    /\ UNCHANGED <<outsideChunk, hw, files, planned, cpc, call,
                   subtitles, transcript, piece_tasks, max_concurrent_ffmpeg,
                   created_clips>>

HardwareFailureGivesUp(r) == [r EXCEPT !.st = "failed"]

\* video_editor.py:510-528: the except branch runs the libx264 encode
AfterHardwareFailure(r) == [r EXCEPT !.st = "fb", !.attempts = @ \o <<"sw">>]

\* video_editor.py:488-511: the hardware encode ends; on an exception the
\* software encode starts in the same call
FinishHardware(k) ==
    /\ cpc = "gather"
    /\ k \in Pieces
    /\ rs[k].st = "hw"
    /\ \E fault \in BOOLEAN :
          /\ fault => (HardwareEncodeCanSucceed(rs[k]) /\ faults < MaxFaults)
          /\ faults' = IF fault THEN faults + 1 ELSE faults
          /\ IF HardwareEncodeCanSucceed(rs[k]) /\ ~fault
             THEN /\ rs' = [rs EXCEPT ![k] =
                              [@ EXCEPT !.st = "ok",
                                        !.result = ClipPath(piece_tasks[k].clip_number)]]
                  /\ files' = files \cup {ClipPath(piece_tasks[k].clip_number)}
                  /\ encoding' = encoding \ {Encode(k)}
                  /\ semaphore' = semaphore + 1
             ELSE /\ rs' = [rs EXCEPT ![k] = [AfterHardwareFailure(@) EXCEPT !.hwFault = fault]]
                  /\ UNCHANGED <<files, encoding, semaphore>>
    /\ UNCHANGED <<outsideChunk, hw, logVars, cpc, call, subtitles, transcript,
                   piece_tasks, max_concurrent_ffmpeg, created_clips>>

\* video_processor.py:755-759  the path when create_styled_clip returned True
PieceResult(success, clip_number) ==
    IF success THEN ClipPath(clip_number) ELSE NoneValue

\* video_editor.py:513-529 or 530-568, then 279-285 and video_processor.py:755-764:
\* the software encode ends, the piece returns and leaves the gate
FinishSoftware(k) ==
    /\ cpc = "gather"
    /\ k \in Pieces
    /\ rs[k].st \in {"fb", "cpu"}
    /\ LET success == IF rs[k].st = "fb" THEN FallbackEncodeSucceeds(rs[k])
                                        ELSE CpuEncodeSucceeds(rs[k])
           n == piece_tasks[k].clip_number
       IN  /\ rs' = [rs EXCEPT ![k] =
                       [@ EXCEPT !.st = IF success THEN "ok" ELSE "failed",
                                 !.result = PieceResult(success, n)]]
           /\ files' = IF success THEN files \cup {ClipPath(n)} ELSE files
           /\ failed' = IF success THEN failed ELSE failed \cup {n}
    /\ encoding' = encoding \ {Encode(k)}
    /\ semaphore' = semaphore + 1
    /\ UNCHANGED <<outsideChunk, hw, faults, transcriptions, planned, cpc, call,
                   subtitles, transcript, piece_tasks, max_concurrent_ffmpeg,
                   created_clips>>

GatherFirstCompleted(tasks) ==
    tasks = <<>> \/ \E k \in 1..Len(tasks) : Finished(tasks[k])

\* video_processor.py:700-703  await asyncio.gather(..., return_exceptions=True)
GatherComplete(tasks) == \A k \in 1..Len(tasks) : Finished(tasks[k])

CreatedClipsAllOrNothing(tasks) ==
    IF \E k \in 1..Len(tasks) : tasks[k].result.kind # "clip"
    THEN <<>>
    ELSE [k \in 1..Len(tasks) |-> tasks[k].result]

RECURSIVE CreatedClips(_)
\* video_processor.py:706-714: the results that are paths, in plan order
CreatedClips(tasks) ==
    IF tasks = <<>> THEN <<>>
    ELSE IF Head(tasks).result.kind = "clip"
         THEN <<Head(tasks).result>> \o CreatedClips(Tail(tasks))
         ELSE CreatedClips(Tail(tasks))

DeletesAnyChunk(chunk_path, original_video_path) == chunk_path \in files

\* video_processor.py:719  chunk_path != original_video_path and os.path.exists
DeletesChunk(chunk_path, original_video_path) ==
    chunk_path # original_video_path /\ chunk_path \in files

\* video_processor.py:700-726
Collect ==
    /\ cpc = "gather"
    /\ GatherComplete(rs)
    /\ created_clips' = CreatedClips(rs)
    /\ files' = IF DeletesChunk(call.chunk_path, call.original_video_path)
                THEN files \ {call.chunk_path}
                ELSE files
    /\ cpc' = "returned"
    /\ UNCHANGED <<outsideChunk, hw, faults, encoding, logVars, call, subtitles,
                   transcript, piece_tasks, max_concurrent_ffmpeg, semaphore, rs>>

ChunkStep ==
    \/ Transcribe
    \/ PlanAndGate
    \/ \E k \in Pieces : StartRender(k)
    \/ \E k \in Pieces : FinishHardware(k)
    \/ \E k \in Pieces : FinishSoftware(k)
    \/ Collect

---------------------------------------------------------------------------
(* Chunk extraction: VideoProcessor.split_into_chunks *)

\* video_processor.py:176  math.ceil(total_duration / chunk_duration)
CeilDiv(a, b) == (a + b - 1) \div b

\* a planner that drops the remainder of the source
ChunkTasksDropsRemainder(total_duration, chunk_duration) ==
    [t \in 1..(total_duration \div chunk_duration) |->
        [input_path |-> SourceFile,
         output_path |-> ChunkFile(t - 1),
         start_time |-> (t - 1) * chunk_duration,
         duration |-> chunk_duration,
         index |-> t - 1]]

\* video_processor.py:183-195
ChunkTasks(total_duration, chunk_duration) ==
    [t \in 1..CeilDiv(total_duration, chunk_duration) |->
        [input_path |-> SourceFile,
         output_path |-> ChunkFile(t - 1),
         start_time |-> (t - 1) * chunk_duration,
         duration |-> Min(chunk_duration, total_duration - (t - 1) * chunk_duration),
         index |-> t - 1]]

\* video_processor.py:201-207
MaxConcurrent(n) ==
    IF ProcessorGpuSupport THEN Min(GpuSplitCap, n) ELSE Min(CpuSplitCap, n)

\* a first attempt chosen by the encoder list alone
DirectCommandByEncoderList == IF EditorGpuSupport THEN "nvenc" ELSE "x264"

\* video_processor.py:331-369: the command of the first attempt
DirectCommand == IF ProcessorGpuSupport THEN "nvenc" ELSE "x264"

\* An ffmpeg process cutting a chunk. attempt 1 runs under the 30 s wait, in the
\* thread of _create_chunk_direct_command; attempt 2 under the 120 s wait.
\* awaited: a wait_for is still waiting for its thread.
Extraction(t, attempt, cmd) ==
    [task |-> t, attempt |-> attempt, cmd |-> cmd, awaited |-> TRUE,
     output_path |-> ChunkFile(t - 1)]

\* video_processor.py:209-225: the tasks gathered together, from task b on
Batch(b, cap, n) == {t \in 1..n : b <= t /\ t < b + cap}

BatchDoneOnSuccess(b) ==
    \A t \in Batch(b, max_concurrent, Len(chunk_tasks)) : ext[t] = "true"

\* video_processor.py:215, 223: gather(..., return_exceptions=True) ends when
\* every task of the batch has returned, True or False
BatchDone(b) ==
    \A t \in Batch(b, max_concurrent, Len(chunk_tasks)) : ext[t] \in {"true", "false"}

\* video_processor.py:163-225, 270-288: the plan, the cap, and the first batch
\* up to the point where every task of it waits for its thread
SplitStart ==
    /\ pc = "split"
    /\ LET total_duration == src.duration
       IN  IF total_duration <= ChunkSeconds
           THEN \* video_processor.py:170-172
                /\ chunks' = <<SourceFile>>
                /\ pc' = "verify"
                /\ UNCHANGED <<splitVars, procs>>
           ELSE LET tasks == ChunkTasks(total_duration, ChunkSeconds)
                    cap == MaxConcurrent(Len(tasks))
                IN  /\ chunk_tasks' = tasks
                    /\ max_concurrent' = cap
                    /\ batch' = 1
                    /\ ext' = [t \in 1..Len(tasks) |->
                                 IF t \in Batch(1, cap, Len(tasks)) THEN "first"
                                                                    ELSE "pending"]
                    /\ tried' = [t \in 1..Len(tasks) |->
                                   IF t \in Batch(1, cap, Len(tasks)) THEN <<DirectCommand>>
                                                                      ELSE <<>>]
                    /\ procs' = procs \cup {Extraction(t, 1, DirectCommand) :
                                               t \in Batch(1, cap, Len(tasks))}
                    /\ pc' = "extracting"
                    /\ chunks' = chunks
    /\ OnLoop(IF src.duration <= ChunkSeconds
              THEN {"get_video_info"}
              ELSE {"get_video_info", "_check_gpu_support"})
    \* video_processor.py:201 and, in the thread of every task started, 331
    /\ Probing(IF src.duration <= ChunkSeconds
               THEN <<>>
               ELSE <<"split_into_chunks">>
                    \o Times("_create_chunk_direct_command",
                             Batch(1, MaxConcurrent(Len(ChunkTasks(src.duration, ChunkSeconds))),
                                   Len(ChunkTasks(src.duration, ChunkSeconds)))))
    /\ UNCHANGED <<besideSplit, hw, corrupt, faults, timeouts, files,
                   src, config, i, all_clips, total_expected_clips>>

\* video_processor.py:372-388, 618-629 and 290-297, 315-324: an ffmpeg process
\* exits. A failed h264_nvenc command is followed by the libx264 command in the
\* same thread; the task of an awaited thread gets its result.
ConcurrentWriter(p) == \E q \in procs \ {p} : q.output_path = p.output_path

ProcessExits(p) ==
    /\ p \in procs
    /\ \E ok \in BOOLEAN :
          LET retry == ~ok /\ p.cmd = "nvenc"
              rest == procs \ {p}
          IN  /\ ok \/ faults < MaxFaults
              /\ faults' = IF ok THEN faults ELSE faults + 1
              /\ files' = IF ok THEN files \cup {p.output_path} ELSE files
              /\ \E damaged \in BOOLEAN :
                    /\ damaged => (ok /\ ConcurrentWriter(p))
                    /\ corrupt' = IF damaged THEN corrupt \cup {p.output_path} ELSE corrupt
              /\ procs' = IF retry THEN rest \cup {[p EXCEPT !.cmd = "fallback"]}
                                   ELSE rest
              /\ ext' = IF p.awaited /\ ~retry
                        THEN [ext EXCEPT ![p.task] = IF ok THEN "true" ELSE "false"]
                        ELSE ext
              /\ tried' = IF retry THEN [tried EXCEPT ![p.task] = Append(@, "fallback")]
                                   ELSE tried
    /\ UNCHANGED <<outsideSplit, hw, timeouts, chunk_tasks, max_concurrent, batch,
                   jobVars>>

\* wait_for gives up on a thread it cannot stop: the thread and its ffmpeg
\* process run on without anyone waiting for them
Abandon(ps, t) ==
    {IF p.task = t /\ p.awaited THEN [p EXCEPT !.awaited = FALSE] ELSE p : p \in ps}

\* video_processor.py:278-288, 299-314: the 30 s wait ends first
FirstTimeout(t) ==
    /\ pc = "extracting"
    /\ t \in 1..Len(ext)
    /\ ext[t] = "first"
    /\ timeouts < MaxTimeouts
    /\ timeouts' = timeouts + 1
    /\ procs' = Abandon(procs, t) \cup {Extraction(t, 2, "fallback")}
    /\ ext' = [ext EXCEPT ![t] = "fallback"]
    /\ tried' = [tried EXCEPT ![t] = Append(@, "fallback")]
    /\ UNCHANGED <<outsideSplit, hw, corrupt, faults, files, chunk_tasks, max_concurrent, batch,
                   jobVars>>

\* video_processor.py:304-319: the 120 s wait ends first
FallbackTimeout(t) ==
    /\ pc = "extracting"
    /\ t \in 1..Len(ext)
    /\ ext[t] = "fallback"
    /\ timeouts < MaxTimeouts
    /\ timeouts' = timeouts + 1
    /\ procs' = Abandon(procs, t)
    /\ ext' = [ext EXCEPT ![t] = "false"]
    /\ UNCHANGED <<outsideSplit, hw, corrupt, faults, files, chunk_tasks, max_concurrent, batch, tried,
                   jobVars>>

\* video_processor.py:220-225: the next batch starts when the gather of this one ends
NextBatch ==
    /\ pc = "extracting"
    /\ BatchDone(batch)
    /\ batch + max_concurrent <= Len(chunk_tasks)
    /\ LET b == batch + max_concurrent
           starting == Batch(b, max_concurrent, Len(chunk_tasks))
       IN  /\ batch' = b
           /\ ext' = [t \in 1..Len(ext) |-> IF t \in starting THEN "first" ELSE ext[t]]
           /\ tried' = [t \in 1..Len(ext) |->
                          IF t \in starting THEN <<DirectCommand>> ELSE tried[t]]
           /\ procs' = procs \cup {Extraction(t, 1, DirectCommand) : t \in starting}
           \* video_processor.py:331, in the thread of every task started
           /\ Probing(Times("_create_chunk_direct_command", starting))
    /\ UNCHANGED <<besideSplit, blocked, hw, corrupt, faults, timeouts, files, chunk_tasks,
                   max_concurrent, jobVars>>

RECURSIVE SuccessfulChunksUntilFailure(_, _)
\* a collection that a failed task ends
SuccessfulChunksUntilFailure(tasks, results) ==
    IF tasks = <<>> \/ Head(results) # "true" THEN <<>>
    ELSE <<Head(tasks).output_path>>
         \o SuccessfulChunksUntilFailure(Tail(tasks), Tail(results))

RECURSIVE SuccessfulChunks(_, _)
\* video_processor.py:230-238
SuccessfulChunks(tasks, results) ==
    IF tasks = <<>> THEN <<>>
    ELSE (IF Head(results) = "true" THEN <<Head(tasks).output_path>> ELSE <<>>)
         \o SuccessfulChunks(Tail(tasks), Tail(results))

\* video_processor.py:215, 223-264: the last gather ends and the split returns
SplitReturn ==
    /\ pc = "extracting"
    /\ BatchDone(batch)
    /\ batch + max_concurrent > Len(chunk_tasks)
    /\ chunks' = SuccessfulChunks(chunk_tasks, ext)
    /\ pc' = "verify"
    /\ UNCHANGED <<outsideSplit, envVars, splitVars,
                   src, config, i, all_clips, total_expected_clips>>

---------------------------------------------------------------------------
(* The job: VideoProcessor.process_video_file *)

\* whole seconds of video_editor.get_video_info(path)['duration']: a chunk cut
\* with -t n holds n seconds of the source and less than one frame more
ProbeSeconds(path) ==
    IF path = SourceFile THEN src.duration
    ELSE chunk_tasks[path.index + 1].duration

\* video_processor.py:65  total_duration > 300
LongerThanChunk(source) ==
    source.duration > ChunkSeconds \/ (source.duration = ChunkSeconds /\ source.frac)

Exists(path) == path \in files

\* video_editor.py:20-50: get_video_info(path) returns
Readable(path) == path \in files /\ path \notin corrupt

\* video_processor.py:159-161
Failure(e) == [success |-> FALSE, error |-> e]

\* video_processor.py:55-71
StartJob ==
    /\ pc = "start"
    /\ IF ~Readable(SourceFile)
       THEN \* video_processor.py:58 raises; 159-161
            /\ pc' = "returned"
            /\ chunks' = chunks
            /\ result' = Failure("probe")
       ELSE IF LongerThanChunk(src)
       THEN /\ pc' = "split"
            /\ chunks' = chunks
            /\ result' = result
       ELSE /\ pc' = "verify"
            /\ chunks' = <<SourceFile>>
            /\ result' = result
    /\ OnLoop({"get_video_info"})
    /\ UNCHANGED <<planVars, envVars, probes, upload_results, links_file, logVars, chunkVars,
                   splitVars, src, config, i, all_clips, total_expected_clips>>

\* video_processor.py:74-90
VerifyChunks ==
    /\ pc = "verify"
    /\ IF \E n \in 1..Len(chunks) : Exists(chunks[n]) /\ ~Readable(chunks[n])
       THEN \* video_processor.py:77  get_video_info raises; 159-161
            /\ pc' = "returned"
            /\ result' = Failure("probe")
            /\ UNCHANGED <<chunks, all_clips, total_expected_clips, i>>
       ELSE /\ chunks' = SelectSeq(chunks, Exists)
            /\ all_clips' = <<>>
            /\ total_expected_clips' = 0
            /\ i' = 0
            /\ pc' = "loop"
            /\ result' = result
    /\ OnLoop(IF \E n \in 1..Len(chunks) : Exists(chunks[n])
              THEN {"get_video_info"} ELSE {})
    /\ UNCHANGED <<planVars, envVars, probes, upload_results, links_file, logVars, chunkVars,
                   splitVars, src, config>>

\* video_processor.py:92-111 and 654: the call of _process_chunk_parallel
LoopCall ==
    /\ pc = "loop"
    /\ i < Len(chunks)
    /\ LET chunk_path == chunks[i + 1]
       IN  IF Readable(chunk_path)
           THEN /\ total_expected_clips' =
                       total_expected_clips + (ProbeSeconds(chunk_path) \div config.duration)
                /\ call' = [chunk_path |-> chunk_path,
                            duration |-> config.duration,
                            chunk_index |-> i,
                            original_video_path |-> SourceFile,
                            chunk_duration |-> ProbeSeconds(chunk_path)]
                /\ cpc' = "generate"
                /\ pc' = "chunk"
                /\ i' = i
           ELSE \* video_processor.py:119-122
                /\ i' = i + 1
                /\ UNCHANGED <<total_expected_clips, call, cpc, pc>>
    /\ OnLoop({"get_video_info"})
    /\ UNCHANGED <<aroundJob, logVars, splitVars, subtitles, transcript, piece_tasks,
                   max_concurrent_ffmpeg, semaphore, rs, created_clips,
                   src, config, chunks, all_clips>>

\* video_processor.py:113-117
LoopReturn ==
    /\ pc = "chunk"
    /\ cpc = "returned"
    /\ all_clips' = all_clips \o created_clips
    /\ i' = i + 1
    /\ pc' = "loop"
    /\ cpc' = "idle"
    /\ call' = NoCall
    /\ subtitles' = <<>>
    /\ transcript' = "none"
    /\ piece_tasks' = <<>>
    /\ max_concurrent_ffmpeg' = 0
    /\ semaphore' = 0
    /\ rs' = <<>>
    /\ created_clips' = <<>>
    /\ UNCHANGED <<outsideJob, logVars, splitVars, src, config, chunks,
                   total_expected_clips>>

\* video_processor.py:124-130
EndLoop ==
    /\ pc = "loop"
    /\ i = Len(chunks)
    /\ pc' = "clips_ready"
    /\ UNCHANGED <<outsideJob, logVars, chunkVars, splitVars,
                   src, config, chunks, i, all_clips, total_expected_clips>>

---------------------------------------------------------------------------
(* Publishing: GoogleDriveUploader.upload_clips and create_links_file *)

\* the Drive file created from a local clip, and its download link
RemoteFile(clip_path) == [kind |-> "remote", index |-> clip_path.index]
DownloadUrl(file_id) == [kind |-> "url", index |-> file_id.index]

\* google_drive_uploader.py:112-172: up to max_retries attempts, of which the
\* first `fails` fail; the last failure is raised
UploadClipSync(clip_path, clip_number, fails) ==
    IF fails < MaxRetries
    THEN [raised |-> FALSE,
          value |-> [success |-> TRUE,
                     file_id |-> RemoteFile(clip_path),
                     file_name |-> ClipPath(clip_number),
                     download_url |-> DownloadUrl(RemoteFile(clip_path)),
                     clip_number |-> clip_number]]
    ELSE [raised |-> TRUE, value |-> NoneValue]

\* google_drive_uploader.py:92-110
UploadSingleClip(clip_path, clip_number, fails) ==
    LET r == UploadClipSync(clip_path, clip_number, fails)
    IN  IF r.raised
        THEN [raised |-> FALSE, value |-> [success |-> FALSE, clip_number |-> clip_number]]
        ELSE r

\* google_drive_uploader.py:70-83: an exception among the gathered results
\* becomes a failure of its position
GatheredUploads(tasks) ==
    [n \in 1..Len(tasks) |->
        IF tasks[n].raised THEN [success |-> FALSE, clip_number |-> n]
                           ELSE tasks[n].value]

UploadClipsEmptyOnFailure(clip_paths, service_ok, folder_ok, fails) ==
    IF service_ok
    THEN GatheredUploads([n \in 1..Len(clip_paths) |->
                             UploadSingleClip(clip_paths[n], n, fails[n])])
    ELSE <<>>

\* google_drive_uploader.py:53-90. service_ok: _init_service does not raise;
\* a folder that cannot be created leaves folder_id None (174-187) and the
\* uploads go on; fails[n]: the failing attempts of the n-th upload
UploadClips(clip_paths, service_ok, folder_ok, fails) ==
    IF service_ok
    THEN GatheredUploads([n \in 1..Len(clip_paths) |->
                             UploadSingleClip(clip_paths[n], n, fails[n])])
    ELSE [n \in 1..Len(clip_paths) |-> [success |-> FALSE]]

RECURSIVE LinkLines(_, _)
\* video_processor.py:794-796  for i, result in enumerate(upload_results, 1)
LinkLines(results, index) ==
    IF results = <<>> THEN <<>>
    ELSE (IF Head(results).success
          THEN <<[index |-> index, url |-> Head(results).download_url]>>
          ELSE <<>>)
         \o LinkLines(Tail(results), index + 1)

RECURSIVE Successes(_)
\* video_processor.py:799  sum(1 for r in upload_results if r['success'])
Successes(results) ==
    IF results = <<>> THEN 0
    ELSE (IF Head(results).success THEN 1 ELSE 0) + Successes(Tail(results))

LinksFileCountsLines(results) ==
    [kind |-> "links",
     lines |-> LinkLines(results, 1),
     total |-> Len(LinkLines(results, 1)),
     successful |-> Successes(results)]

\* video_processor.py:785-801
CreateLinksFile(results) ==
    [kind |-> "links",
     lines |-> LinkLines(results, 1),
     total |-> Len(results),
     successful |-> Successes(results)]

---------------------------------------------------------------------------
(* The end of the job: video_processor.py:132-158 *)

RECURSIVE TotalFailures(_)
\* the uploads that fail on every attempt
TotalFailures(fails) ==
    IF fails = <<>> THEN 0
    ELSE (IF Head(fails) >= MaxRetries THEN 1 ELSE 0) + TotalFailures(Tail(fails))

\* video_processor.py:137-139: the clips are given to the publisher
Upload ==
    /\ pc = "clips_ready"
    /\ \E service_ok \in BOOLEAN, folder_ok \in BOOLEAN,
          fails \in [1..Len(all_clips) -> 0..MaxRetries] :
          LET cost == (IF service_ok THEN 0 ELSE 1) + (IF folder_ok THEN 0 ELSE 1)
                      + TotalFailures(fails)
          IN  /\ faults + cost <= MaxFaults
              /\ faults' = faults + cost
              /\ upload_results' = UploadClips(all_clips, service_ok, folder_ok, fails)
    /\ pc' = "uploaded"
    /\ OnLoop({"time.sleep"})
    /\ UNCHANGED <<planVars, probes, hw, corrupt, timeouts, files, encoding, procs, logVars, chunkVars,
                   splitVars, src, config, chunks, i, all_clips, total_expected_clips,
                   links_file, result>>

\* video_processor.py:141-142 and 785-805: the manifest, or None when it
\* cannot be written
WriteLinks ==
    /\ pc = "uploaded"
    /\ \E written \in BOOLEAN :
          /\ written \/ faults < MaxFaults
          /\ faults' = IF written THEN faults ELSE faults + 1
          /\ links_file' = IF written THEN CreateLinksFile(upload_results) ELSE NoneValue
    /\ pc' = "linked"
    /\ UNCHANGED <<blocked, probes, planVars, hw, corrupt, timeouts, files, encoding, procs, logVars, chunkVars,
                   splitVars, src, config, chunks, i, all_clips, total_expected_clips,
                   upload_results, result>>

CleanupEveryClip(clip_paths, results) == {clip_paths[n] : n \in 1..Len(clip_paths)}

\* video_processor.py:820-823: the clips whose own result reports success
CleanupTargets(clip_paths, results) ==
    {clip_paths[n] : n \in {m \in 1..Len(clip_paths) :
                               m <= Len(results) /\ results[m].success}}

\* video_processor.py:844-847: the files of temp/ that are not clips
TempFiles == {f \in files : f.kind = "chunk"}

\* video_processor.py:144-158 and 807-852: clean up when an upload succeeded,
\* and return. busy: the files os.remove could not delete (831-836)
CleanupAndReturn ==
    /\ pc = "linked"
    /\ \E busy \in SUBSET CleanupTargets(all_clips, upload_results) :
          /\ faults + Cardinality(busy) <= MaxFaults
          /\ faults' = faults + Cardinality(busy)
          /\ files' = IF Successes(upload_results) > 0
                      THEN (files \ (CleanupTargets(all_clips, upload_results) \ busy))
                               \ TempFiles
                      ELSE files
    /\ result' = [success |-> TRUE,
                  total_clips |-> Len(all_clips),
                  links_file |-> links_file,
                  upload_results |-> upload_results]
    /\ pc' = "returned"
    /\ OnLoop(IF Successes(upload_results) > 0 THEN {"time.sleep"} ELSE {})
    /\ UNCHANGED <<planVars, probes, hw, corrupt, timeouts, encoding, procs, logVars, chunkVars,
                   splitVars, src, config, chunks, i, all_clips, total_expected_clips,
                   upload_results, links_file>>

---------------------------------------------------------------------------
(* SpecChunk: one call of _process_chunk_parallel *)

\* The calls: a fan-out wider than either gate on a machine without transient
\* failures, and narrower ones on a machine with them.
ChunkCallInputs ==
    {[chunk_duration |-> 270, duration |-> 30, chunk_index |-> 0, original |-> TRUE,
      faults |-> MaxFaults],
     [chunk_duration |-> 300, duration |-> 100, chunk_index |-> 1, original |-> FALSE,
      faults |-> 0],
     [chunk_duration |-> 300, duration |-> 100, chunk_index |-> 0, original |-> TRUE,
      faults |-> 0],
     [chunk_duration |-> 45, duration |-> 30, chunk_index |-> 0, original |-> TRUE,
      faults |-> 0],
     [chunk_duration |-> 20, duration |-> 30, chunk_index |-> 2, original |-> FALSE,
      faults |-> 0]}

InitChunk ==
    /\ NoPlanner
    /\ hw \in Machines
    /\ timeouts = 0
    /\ encoding = {}
    /\ procs = {}
    /\ corrupt = {}
    /\ \E in \in ChunkCallInputs :
          /\ call = [chunk_path |-> IF in.original THEN SourceFile
                                                   ELSE ChunkFile(in.chunk_index),
                     duration |-> in.duration,
                     chunk_index |-> in.chunk_index,
                     original_video_path |-> SourceFile,
                     chunk_duration |-> in.chunk_duration]
          /\ files = {SourceFile, call.chunk_path}
          /\ faults = in.faults
    /\ NothingDone
    /\ NoBot
    /\ cpc = "generate"
    /\ ChunkLocals
    /\ IdleSplit
    /\ IdleJob

SpecChunk == InitChunk /\ [][ChunkStep]_vars

---------------------------------------------------------------------------
(* SpecPlan: the planners applied to every input *)

InitPlan ==
    /\ fnIn \in [total : 0..MaxPlanTotal, clip : 1..MaxPlanClip, index : 0..1]
    /\ fnOut = [done |-> FALSE]
    /\ hw = [smi |-> FALSE, nvenc |-> FALSE, micro |-> FALSE]
    /\ files = {}
    /\ QuietMachine
    /\ NothingDone
    /\ NoBot
    /\ IdleChunk
    /\ IdleSplit
    /\ IdleJob

ApplyPlanners ==
    /\ fnOut.done = FALSE
    /\ fnOut' = [done |-> TRUE,
                 pieces |-> PlanPieces(fnIn.total, fnIn.clip, fnIn.index),
                 clips |-> ClipsToCreate(fnIn.total, fnIn.clip, fnIn.index)]
    /\ UNCHANGED <<fnIn, pipelineVars>>

NextPlan == ApplyPlanners

SpecPlan == InitPlan /\ [][NextPlan]_vars

---------------------------------------------------------------------------
(* Spec: one job on one machine *)

\* The jobs: a source of one chunk, with and without a fraction of a second
\* over the threshold; sources of two and of three chunks; and a source of four
\* chunks, cut in two batches on a machine without acceleration, whose waits
\* never time out.
JobInputs ==
    {[duration |-> 250, frac |-> FALSE, clip |-> 100, timeouts |-> 0],
     [duration |-> 300, frac |-> TRUE, clip |-> 150, timeouts |-> 0],
     [duration |-> 600, frac |-> FALSE, clip |-> 150, timeouts |-> 0],
     [duration |-> 620, frac |-> TRUE, clip |-> 300, timeouts |-> MaxTimeouts - 1],
     [duration |-> 1000, frac |-> FALSE, clip |-> 300, timeouts |-> MaxTimeouts]}

Init ==
    /\ NoPlanner
    /\ hw \in Machines
    /\ files = {SourceFile}
    /\ faults = 0
    /\ encoding = {}
    /\ procs = {}
    /\ corrupt \in {{}, {SourceFile}}
    /\ NothingDone
    /\ NoBot
    /\ IdleChunk
    /\ IdleSplit
    /\ \E in \in JobInputs :
          /\ src = [duration |-> in.duration, frac |-> in.frac]
          /\ config = [duration |-> in.clip]
          /\ timeouts = in.timeouts
    /\ pc = "start"
    /\ chunks = <<>>
    /\ i = 0
    /\ all_clips = <<>>
    /\ total_expected_clips = 0
    /\ upload_results = <<>>
    /\ links_file = NoneValue
    /\ result = NoneValue

Next ==
    \/ StartJob
    \/ SplitStart
    \/ \E p \in procs : ProcessExits(p)
    \/ \E t \in 1..Len(ext) : FirstTimeout(t)
    \/ \E t \in 1..Len(ext) : FallbackTimeout(t)
    \/ NextBatch
    \/ SplitReturn
    \/ VerifyChunks
    \/ LoopCall
    \/ ChunkStep
    \/ LoopReturn
    \/ EndLoop
    \/ Upload
    \/ WriteLinks
    \/ CleanupAndReturn

Spec == Init /\ [][Next]_vars

---------------------------------------------------------------------------
(* Properties *)

Range(seq) == {seq[n] : n \in 1..Len(seq)}

\* floor(D/d) windows, the k-th being [(k-1)*d, k*d), none ending after D
FloorWindows(plan, D, d) ==
    /\ Len(plan) = D \div d
    /\ \A k \in 1..Len(plan) :
          /\ plan[k].start_time = (k - 1) * d
          /\ plan[k].duration = d
          /\ plan[k].start_time + plan[k].duration <= D

\* C1: for every chunk duration D >= 0 and clip duration d > 0, the plan of
\* _process_chunk_parallel and the plan of create_clips_parallel consist of
\* exactly floor(D/d) windows of length d, the k-th starting at k*d; no window
\* ends after D, so the remainder D mod d is never scheduled.
C1_PlanIsFloorWindows ==
    fnOut.done =>
        /\ FloorWindows(fnOut.pieces, fnIn.total, fnIn.clip)
        /\ FloorWindows(fnOut.clips, fnIn.total, fnIn.clip)

\* C1 witness: D = 45, d = 30 planned as the one clip [0,30)
C1_Witness ==
    /\ fnOut.done
    /\ fnIn.total = 45
    /\ fnIn.clip = 30
    /\ Len(fnOut.pieces) = 1
    /\ Len(fnOut.clips) = 1
    /\ fnOut.pieces[1].start_time = 0

PlannedNumbers == {p.clip_number : p \in planned}
PlannedIn(c) == {p \in planned : p.chunk_index = c}
ProducedNumbers == {path.index : path \in Range(all_clips)}

\* C2: within one job no two planned clip tasks have the same ordinal or the
\* same output file; when the job's C chunks each planned K clips the planned
\* ordinals are exactly 1..C*K; and the ordinals produced by the job are the
\* planned ones minus those whose render failed.
C2_OrdinalsUnique ==
    /\ \A a, b \in planned :
          (a.clip_number = b.clip_number \/ ClipPath(a.clip_number) = ClipPath(b.clip_number))
              => a = b
    /\ pc = "clips_ready" =>
          /\ \A K \in 0..ChunkSeconds :
                (\A c \in 0..(Len(chunks) - 1) : Cardinality(PlannedIn(c)) = K)
                    => PlannedNumbers = 1..(Len(chunks) * K)
          /\ ProducedNumbers = PlannedNumbers \ failed
          /\ Len(all_clips) = Cardinality(ProducedNumbers)

\* C2 witness: two chunks of two clips each, the job ending with three of the
\* four ordinals produced
C2_Witness ==
    /\ pc = "clips_ready"
    /\ Len(chunks) = 2
    /\ Cardinality(PlannedIn(0)) = 2
    /\ Cardinality(PlannedIn(1)) = 2
    /\ Cardinality(failed) = 1
    /\ Len(all_clips) = 3

\* C3: chunks are processed one after another in source order: every render
\* in flight belongs to the chunk being processed, the transcription and the
\* plan of a chunk run while no render is in flight, and the chunks are
\* transcribed in the order of the job's chunk list.
C3_OneChunkAtATime ==
    /\ \A e \in encoding : pc = "chunk" /\ e.chunk_index = i
    /\ cpc \in {"generate", "plan"} => encoding = {}
    /\ pc \in {"loop", "chunk", "clips_ready"} =>
          /\ Len(transcriptions) <= Len(chunks)
          /\ \A n \in 1..Len(transcriptions) : transcriptions[n] = chunks[n]

\* C3 witness: both renders of the second chunk in flight, after the first
\* chunk's renders have all finished
C3_Witness ==
    /\ pc = "chunk"
    /\ i = 1
    /\ Cardinality(encoding) = 2
    /\ Cardinality(PlannedIn(0)) = 2

RendersInFlight == {k \in Pieces : InFlight(rs[k])}

\* C4: while a chunk is processed the renders that have started and not
\* finished never outnumber the gate, whose size is 8 when acceleration is
\* detected and 3 otherwise; every render in flight holds one permit of the
\* gate, so a planned render starts only by taking a permit.
C4_RendersWithinGate ==
    cpc \in {"gather", "returned"} =>
        /\ max_concurrent_ffmpeg = (IF ProcessorGpuSupport THEN GpuRenderGate
                                                           ELSE CpuRenderGate)
        /\ CpuRenderGate < GpuRenderGate
        /\ Cardinality(RendersInFlight) <= max_concurrent_ffmpeg
        /\ semaphore = max_concurrent_ffmpeg - Cardinality(RendersInFlight)
        /\ semaphore >= 0
        /\ Cardinality(encoding) = Cardinality(RendersInFlight)

\* C4 witness: eight renders in flight on an accelerated machine while a ninth
\* planned render waits at the gate
C4_Witness ==
    /\ cpc = "gather"
    /\ ProcessorGpuSupport
    /\ Cardinality(RendersInFlight) = GpuRenderGate
    /\ semaphore = 0
    /\ \E k \in Pieces : rs[k].st = "planned"

\* C5: during split_into_chunks the extraction processes running at the same
\* time, those of timed-out first attempts included, never outnumber the cap.
C5_ExtractionsWithinCap ==
    pc = "extracting" => Cardinality(procs) <= max_concurrent

\* C6 as stated: every render goes Planned -> Attempting(HW) -> {Success |
\* Attempting(SW) -> {Success | Failed}}: its first attempt is the hardware one.
C6_HardwareAlwaysFirst ==
    \A k \in Pieces :
        /\ rs[k].attempts \in {<<>>, <<"hw">>, <<"hw", "sw">>}
        /\ rs[k].st # "planned" => rs[k].attempts # <<>>

\* C6 amended: a render makes at most two encode attempts. Where the renderer
\* detects the hardware encoder it attempts hardware first and software only
\* after that hardware attempt failed; where it does not, it makes the one
\* software attempt. A render fails only in a software attempt, and nothing
\* follows a software attempt.
C6_AttemptOrder ==
    \A k \in Pieces :
        LET r == rs[k]
        IN  /\ Len(r.attempts) <= 2
            /\ r.attempts \in (IF EditorGpuSupport
                               THEN {<<>>, <<"hw">>, <<"hw", "sw">>}
                               ELSE {<<>>, <<"sw">>})
            /\ r.st = "planned" <=> r.attempts = <<>>
            /\ r.st = "hw" => r.attempts = <<"hw">>
            /\ r.st = "fb" => r.attempts = <<"hw", "sw">>
            /\ r.st = "cpu" => r.attempts = <<"sw">>
            /\ r.st = "failed" => r.attempts[Len(r.attempts)] = "sw"

\* C6 witness: a render that failed in hardware and then finished in software
C6_Witness ==
    \E k \in Pieces :
        /\ Finished(rs[k])
        /\ rs[k].attempts = <<"hw", "sw">>

\* C7: a render whose hardware attempt raised, and whose software render would
\* succeed in isolation, produces its output by the software path and succeeds.
C7_FallbackProducesOutput ==
    \A k \in Pieces :
        (Finished(rs[k]) /\ rs[k].attempts = <<"hw", "sw">> /\ CpuEncodeSucceeds(rs[k]))
            => /\ rs[k].st = "ok"
               /\ ClipPath(piece_tasks[k].clip_number) \in files

OkNumbers == {piece_tasks[k].clip_number : k \in {j \in Pieces : rs[j].st = "ok"}}

\* C8: a render that fails on every path does not raise into the chunk
\* pipeline: its piece returns None, every other planned piece is still
\* rendered, and the chunk returns exactly the paths of the pieces whose
\* render succeeded, in plan order.
C8_FailuresContained ==
    cpc = "returned" =>
        /\ Len(rs) = Len(PlanPieces(call.chunk_duration, call.duration, call.chunk_index))
        /\ \A k \in Pieces :
              /\ Finished(rs[k])
              /\ rs[k].attempts # <<>>
              /\ rs[k].st = "failed" => rs[k].result = NoneValue
              /\ rs[k].st = "ok" => rs[k].result = ClipPath(piece_tasks[k].clip_number)
        /\ Range(created_clips) = {ClipPath(n) : n \in OkNumbers}
        /\ Len(created_clips) = Cardinality(OkNumbers)
        /\ \A m, n \in 1..Len(created_clips) :
              m < n => created_clips[m].index < created_clips[n].index

\* C8 witness: a chunk returned with one render failed and another succeeded
C8_Witness ==
    /\ cpc = "returned"
    /\ \E j, k \in Pieces : rs[j].st = "failed" /\ rs[k].st = "ok"
    /\ created_clips # <<>>

\* the chunks whose processing has passed the call of generate
ChunksTranscribed ==
    IF pc = "chunk" /\ cpc # "generate" THEN i + 1 ELSE i

\* C9: generate is called exactly once for every chunk the job processes,
\* before any clip of that chunk is planned or rendered, and never again for a
\* clip, however many clips the chunk has.
C9_OneTranscriptionPerChunk ==
    /\ \A m, n \in 1..Len(transcriptions) :
          transcriptions[m] = transcriptions[n] => m = n
    /\ pc \in {"loop", "chunk", "clips_ready"} =>
          /\ Len(transcriptions) = ChunksTranscribed
          /\ \A p \in planned : p.chunk_index < Len(transcriptions)
    /\ cpc = "generate" => rs = <<>> /\ piece_tasks = <<>>
    /\ rs # <<>> => call.chunk_path \in Range(transcriptions)

\* C9 witness: the second chunk of a job has rendered a clip and generate has
\* been called twice, for four planned clips
C9_Witness ==
    /\ pc = "chunk"
    /\ i = 1
    /\ Len(transcriptions) = 2
    /\ Cardinality(planned) = 4
    /\ \E k \in Pieces : rs[k].st = "ok"

BaseLayers(duration) ==
    <<Layer("blurred_bg", 0, duration), Layer("main_scaled", 0, duration),
      Layer("title", TitleStartTime, duration),
      Layer("subtitle", TitleStartTime, duration)>>

\* C10: when the caption list of a chunk is empty, as it is when transcription
\* is unavailable or fails, every planned clip is still rendered, from a graph
\* of background, foreground, title and subtitle with no caption; the chunk
\* does not fail, and a clip fails only in an encode.
C10_EmptyCaptionsStillRender ==
    /\ transcript \in {"unavailable", "raises"} => subtitles = <<>>
    /\ (transcript # "none" /\ subtitles = <<>>) =>
          /\ cpc \in {"gather", "returned"} =>
                /\ Len(rs) = Len(PlanPieces(call.chunk_duration, call.duration,
                                            call.chunk_index))
                /\ \A k \in Pieces :
                      /\ GraphOf(k).valid
                      /\ GraphOf(k).layers = BaseLayers(piece_tasks[k].duration)
                      /\ rs[k].st = "failed" => rs[k].attempts # <<>>
          /\ cpc = "returned" => \A k \in Pieces : rs[k].attempts # <<>>

\* C10 witness: transcription raised, and a clip of the chunk was rendered
\* without captions
C10_Witness ==
    /\ cpc = "returned"
    /\ transcript = "raises"
    /\ subtitles = <<>>
    /\ \E k \in Pieces : rs[k].st = "ok" /\ rs[k].result \in files

---------------------------------------------------------------------------
(* SpecCaptions: _add_animated_subtitles applied to caption lists *)

\* a pure function runs on no machine and in no job
NoPipeline ==
    /\ hw = [smi |-> FALSE, nvenc |-> FALSE, micro |-> FALSE]
    /\ files = {}
    /\ QuietMachine
    /\ NothingDone
    /\ NoBot
    /\ IdleChunk
    /\ IdleSplit
    /\ IdleJob

\* the captions (a, b) with a < b
Captions ==
    {[start |-> a, end |-> b] : a \in 0..MaxCaptionTime, b \in 1..MaxCaptionTime}
        \ {c \in [start : 0..MaxCaptionTime, end : 1..MaxCaptionTime] : c.start >= c.end}

\* the caption lists of a chunk: none, one or two captions
CaptionInputs ==
    {<<>>} \cup {<<c>> : c \in Captions} \cup {<<c1, c2>> : c1 \in Captions, c2 \in Captions}

\* the clips: every short one, and the clip [30,60) of a chunk whose captions
\* are [40,42], inside it, and [10,20], before it
CaptionCalls ==
    [subs : CaptionInputs, start_time : 0..MaxClipStart, duration : 1..MaxClipLen]
        \cup {[subs |-> <<[start |-> 40, end |-> 42], [start |-> 10, end |-> 20]>>,
               start_time |-> 30, duration |-> 30]}

InitCaptions ==
    /\ fnIn \in CaptionCalls
    /\ fnOut = [done |-> FALSE]
    /\ NoPipeline

\* video_editor.py:571-612: the drawtext filters added to the video; the list
\* subtitles is read and never assigned
ApplyCaptions ==
    /\ fnOut.done = FALSE
    /\ fnOut' = [done |-> TRUE,
                 segments |-> AddAnimatedSubtitles(Video(<<>>), fnIn.subs,
                                                   fnIn.start_time, fnIn.duration).layers,
                 subtitles |-> fnIn.subs]
    /\ UNCHANGED <<fnIn, pipelineVars>>

NextCaptions == ApplyCaptions

SpecCaptions == InitCaptions /\ [][NextCaptions]_vars

\* the captions of a list that overlap the clip [s, s + d)
Overlapping(subs, s, d) ==
    LET Overlaps(c) == c.end - s > 0 /\ c.start - s < d
    IN  SelectSeq(subs, Overlaps)

\* C11: a caption (a, b), a < b, is rendered in the clip of offset s and
\* duration d iff b - s > 0 and a - s < d, in the window
\* [max(0, a - s), min(d, b - s)], for which 0 <= start < end <= d; the
\* captions outside the clip are not rendered, the rendered ones keep their
\* order, and the chunk's caption list is left as it was.
C11_CaptionWindows ==
    fnOut.done =>
        LET s == fnIn.start_time
            d == fnIn.duration
            kept == Overlapping(fnIn.subs, s, d)
        IN  /\ Len(fnOut.segments) = Len(kept)
            /\ \A n \in 1..Len(kept) :
                  /\ fnOut.segments[n].from = Max(0, kept[n].start - s)
                  /\ fnOut.segments[n].to = Min(d, kept[n].end - s)
                  /\ 0 <= fnOut.segments[n].from
                  /\ fnOut.segments[n].from < fnOut.segments[n].to
                  /\ fnOut.segments[n].to <= d
            /\ fnOut.subtitles = fnIn.subs

\* C11 witness: caption [40,42] appears at [10,12) in the clip [30,60) and the
\* caption [10,20] of the same list does not appear
C11_Witness ==
    /\ fnOut.done
    /\ fnIn.start_time = 30
    /\ fnIn.duration = 30
    /\ Len(fnIn.subs) = 2
    /\ fnOut.segments = <<Layer("caption", 10, 12)>>

\* C12: _process_chunk_parallel never deletes the original source file, and
\* the file of a chunk that is not the source is there as long as a render
\* task of the chunk has not completed; it is gone once the call has returned.
C12_ChunkDeletedAfterRenders ==
    /\ SourceFile \in files
    /\ cpc \in {"generate", "plan"} => call.chunk_path \in files
    /\ \A k \in Pieces : ~Finished(rs[k]) => call.chunk_path \in files
    /\ cpc = "returned" => (call.chunk_path \in files <=> call.chunk_path = SourceFile)

\* C12 witness: a chunk that is not the source has been deleted after its
\* three renders finished
C12_Witness ==
    /\ cpc = "returned"
    /\ call.chunk_path # SourceFile
    /\ call.chunk_path \notin files
    /\ Len(rs) = 3
    /\ \A k \in Pieces : Finished(rs[k])

---------------------------------------------------------------------------
(* SpecPublish: upload_clips and create_links_file applied to clip lists *)

RECURSIVE Ascending(_, _)
\* the lists of at most n clip paths with ordinals from..MaxOrdinal, ascending
Ascending(from, n) ==
    IF n = 0 \/ from > MaxOrdinal THEN {<<>>}
    ELSE Ascending(from + 1, n)
         \cup {<<ClipPath(from)>> \o rest : rest \in Ascending(from + 1, n - 1)}

PublishCalls ==
    {[clip_paths |-> paths, service_ok |-> s, folder_ok |-> f, fails |-> fails] :
        paths \in Ascending(1, MaxUploadClips), s \in BOOLEAN, f \in BOOLEAN,
        fails \in UNION {[1..n -> 0..MaxRetries] : n \in 0..MaxUploadClips}}

InitPublish ==
    /\ fnIn \in {c \in PublishCalls : Len(c.fails) = Len(c.clip_paths)}
    /\ fnOut = [done |-> FALSE]
    /\ NoPipeline

\* video_processor.py:139-142
ApplyPublish ==
    /\ fnOut.done = FALSE
    /\ LET results == UploadClips(fnIn.clip_paths, fnIn.service_ok, fnIn.folder_ok,
                                  fnIn.fails)
       IN  fnOut' = [done |-> TRUE,
                     upload_results |-> results,
                     links_file |-> CreateLinksFile(results)]
    /\ UNCHANGED <<fnIn, pipelineVars>>

NextPublish == ApplyPublish

SpecPublish == InitPublish /\ [][NextPublish]_vars

\* C14: upload_clips returns one result per input path, in the order of the
\* paths: result n succeeds iff the service was initialised and the upload of
\* path n succeeded within its attempts, and then it is the Drive file made
\* from path n; this also when the service or the folder cannot be created.
C14_OneResultPerPath ==
    fnOut.done =>
        /\ Len(fnOut.upload_results) = Len(fnIn.clip_paths)
        /\ \A n \in 1..Len(fnIn.clip_paths) :
              LET r == fnOut.upload_results[n]
              IN  /\ r.success <=> (fnIn.service_ok /\ fnIn.fails[n] < MaxRetries)
                  /\ r.success => /\ r.file_id = RemoteFile(fnIn.clip_paths[n])
                                  /\ r.clip_number = n
                  /\ (~r.success /\ fnIn.service_ok) => r.clip_number = n

\* C14 witness: three paths, the folder not created, the second upload failed
\* on all its attempts and the other two succeeded
C14_Witness ==
    /\ fnOut.done
    /\ Len(fnIn.clip_paths) = 3
    /\ fnIn.service_ok
    /\ ~fnIn.folder_ok
    /\ fnOut.upload_results[1].success
    /\ ~fnOut.upload_results[2].success
    /\ fnOut.upload_results[3].success

SuccessPositions(results) == {n \in 1..Len(results) : results[n].success}

\* C15: the manifest of create_links_file has one URL line for each publish
\* result with success = true, in publish order, and none for a failed result;
\* its total is the number of publish results and its success count the number
\* of results with success = true.
C15_ManifestLines ==
    fnOut.done =>
        LET results == fnOut.upload_results
            lines == fnOut.links_file.lines
        IN  /\ Len(lines) = Cardinality(SuccessPositions(results))
            /\ {lines[k].index : k \in 1..Len(lines)} = SuccessPositions(results)
            /\ \A k \in 1..Len(lines) : lines[k].url = results[lines[k].index].download_url
            /\ \A j, k \in 1..Len(lines) : j < k => lines[j].index < lines[k].index
            /\ fnOut.links_file.total = Len(results)
            /\ fnOut.links_file.successful = Cardinality(SuccessPositions(results))

\* C15 witness: of three publish results the second failed; the manifest has
\* two lines and reports three clips, two published
C15_Witness ==
    /\ fnOut.done
    /\ Len(fnOut.upload_results) = 3
    /\ ~fnOut.upload_results[2].success
    /\ Len(fnOut.links_file.lines) = 2
    /\ fnOut.links_file.total = 3
    /\ fnOut.links_file.successful = 2

\* C13: at the end of a job the file of a produced clip is deleted only if the
\* publish result of that clip reported success: a clip whose result is a
\* failure still exists, and when no upload succeeded every clip still exists.
\* Until the cleanup every produced clip exists.
C13_CleanupOnlyPublished ==
    /\ pc \in {"clips_ready", "uploaded", "linked"} =>
          \A n \in 1..Len(all_clips) : all_clips[n] \in files
    /\ pc = "returned" =>
          /\ Len(upload_results) = Len(all_clips)
          /\ \A n \in 1..Len(all_clips) :
                /\ all_clips[n] \notin files => upload_results[n].success
                /\ ~upload_results[n].success => all_clips[n] \in files
          /\ (\A n \in 1..Len(upload_results) : ~upload_results[n].success)
                => \A n \in 1..Len(all_clips) : all_clips[n] \in files

\* C13 witness: a job returned with four clips, of which the one that failed
\* to publish is kept and the three published are deleted
C13_Witness ==
    /\ pc = "returned"
    /\ Len(all_clips) = 4
    /\ \E n \in 1..4 :
          /\ ~upload_results[n].success
          /\ all_clips[n] \in files
          /\ \A m \in (1..4) \ {n} : upload_results[m].success /\ all_clips[m] \notin files

---------------------------------------------------------------------------
(* SpecSplitPlan: the chunks and the pieces planned for a source *)

\* video_processor.py:64-71 and 166-195: the extraction tasks of a source; none
\* when the source is forwarded whole
PlannedChunks(source) ==
    IF LongerThanChunk(source) /\ source.duration > ChunkSeconds
    THEN ChunkTasks(source.duration, ChunkSeconds)
    ELSE <<>>

RECURSIVE PlannedPieces(_, _)
\* video_processor.py:92-112 and 663-680: the pieces planned over the chunks,
\* each chunk probed at the length it was cut with
PlannedPieces(tasks, duration) ==
    IF tasks = <<>> THEN <<>>
    ELSE PlanPieces(Head(tasks).duration, duration, Head(tasks).index)
         \o PlannedPieces(Tail(tasks), duration)

\* clip durations of the sources in SpecSplitPlan
SplitClipDurations == {30, 45, 300}

InitSplitPlan ==
    /\ fnIn \in [duration : 1..MaxSplitTotal, frac : BOOLEAN, clip : SplitClipDurations]
    /\ fnOut = [done |-> FALSE]
    /\ NoPipeline

ApplySplitPlan ==
    /\ fnOut.done = FALSE
    /\ LET tasks == PlannedChunks(fnIn)
       IN  fnOut' = [done |-> TRUE,
                     tasks |-> tasks,
                     pieces |-> PlannedPieces(tasks, fnIn.clip)]
    /\ UNCHANGED <<fnIn, pipelineVars>>

NextSplitPlan == ApplySplitPlan

SpecSplitPlan == InitSplitPlan /\ [][NextSplitPlan]_vars

\* the lengths of the planned chunks, in order
ChunkLengths(tasks) == [k \in 1..Len(tasks) |-> tasks[k].duration]

RECURSIVE SumOfQuotients(_, _)
SumOfQuotients(lengths, d) ==
    IF lengths = <<>> THEN 0
    ELSE (Head(lengths) \div d) + SumOfQuotients(Tail(lengths), d)

\* C16 as stated: for a source of duration T > 300 (T = duration, plus a part
\* of a second when frac) the plan has ceil(T/300) chunks that are contiguous
\* from 0 and end at T
C16_Original ==
    (fnOut.done /\ LongerThanChunk(fnIn)) =>
        LET tasks == fnOut.tasks
            n == Len(tasks)
        IN  /\ n = CeilDiv(fnIn.duration + (IF fnIn.frac THEN 1 ELSE 0), ChunkSeconds)
            /\ tasks[1].start_time = 0
            /\ \A k \in 1..(n - 1) :
                  tasks[k + 1].start_time = tasks[k].start_time + tasks[k].duration
            /\ ~fnIn.frac
            /\ tasks[n].start_time + tasks[n].duration = fnIn.duration

\* C16 (amended): for a source whose duration in whole seconds S = int(T) is
\* above 300, split_into_chunks plans ceil(S/300) chunks, contiguous, in source
\* order and covering [0, S): each is 300 s long except a possibly shorter
\* final one, which is planned as a chunk and loses only what the piece planner
\* discards; a source of 620 s with 30 s clips gives chunks of 300, 300 and
\* 20 s and exactly 20 pieces. A source with 300 < T < 301 is planned no chunk.
C16_ChunkPlan ==
    fnOut.done =>
        LET tasks == fnOut.tasks
            n == Len(tasks)
        IN  /\ fnIn.duration <= ChunkSeconds => n = 0
            /\ fnIn.duration > ChunkSeconds =>
                  /\ n = CeilDiv(fnIn.duration, ChunkSeconds)
                  /\ tasks[1].start_time = 0
                  /\ \A k \in 1..n : /\ tasks[k].index = k - 1
                                     /\ tasks[k].output_path = ChunkFile(k - 1)
                                     /\ tasks[k].input_path = SourceFile
                  /\ \A k \in 1..(n - 1) :
                        /\ tasks[k].duration = ChunkSeconds
                        /\ tasks[k + 1].start_time = tasks[k].start_time + tasks[k].duration
                  /\ tasks[n].duration \in 1..ChunkSeconds
                  /\ tasks[n].start_time + tasks[n].duration = fnIn.duration
                  /\ Len(fnOut.pieces) = SumOfQuotients(ChunkLengths(tasks), fnIn.clip)
            /\ (fnIn.duration = 620 /\ fnIn.clip = 30) =>
                  /\ ChunkLengths(tasks) = <<300, 300, 20>>
                  /\ Len(fnOut.pieces) = 20
                  /\ {fnOut.pieces[k].clip_number : k \in 1..20} = 1..20

\* C16 witness: the plan of a source of 620 s and a part of a second
C16_Witness ==
    /\ fnOut.done
    /\ fnIn = [duration |-> 620, frac |-> TRUE, clip |-> 30]
    /\ Len(fnOut.tasks) = 3
    /\ fnOut.tasks[3].duration = 20
    /\ Len(fnOut.pieces) = 20

---------------------------------------------------------------------------
(* SpecForeground: the size of the centre video of a clip *)

\* video_editor.py:362  int(target_screen_height * 0.8)
CenterVideoHeight == (TargetScreenHeight * 8) \div 10

\* video_editor.py:367, 381  int(target_height * original_aspect): the quotient
\* original_width / original_height is a rounded double, so a product that is
\* a whole number in exact arithmetic may come out just below it (slip)
ScaledToHeight(target_height, original_width, original_height, slip) ==
    LET exact == (target_height * original_width) \div original_height
        whole == (target_height * original_width) % original_height = 0
        rounded == original_width % original_height # 0
    IN  IF slip /\ whole /\ rounded THEN exact - 1 ELSE exact

KeepsOdd(n) == n

\* video_editor.py:386-387  n - (n % 2)
EvenDown(n) == n - (n % 2)

\* video_editor.py:354-387: the scale and the crop of the centre video
ForegroundSize(original_width, original_height, slip) ==
    LET wide == original_width * TargetScreenHeight > TargetScreenWidth * original_height
        target_height == CenterVideoHeight
        target_width == ScaledToHeight(target_height, original_width, original_height, slip)
        crop_needed == wide /\ target_width > TargetScreenWidth
    IN  [target_width |-> EvenDown(target_width),
         target_height |-> EvenDown(target_height),
         crop_needed |-> crop_needed,
         crop_width |-> IF crop_needed THEN TargetScreenWidth ELSE 0,
         crop_height |-> IF crop_needed THEN target_height ELSE 0,
         lanczos |-> original_width >= 2160 \/ original_height >= 2160]

\* video_editor.py:394-414: the frame laid over the background. ffmpeg's scale
\* filter reads a width of 0 as the width of its input.
CompositedForeground(size, original_width) ==
    LET iw == IF size.target_width = 0 THEN original_width ELSE size.target_width
        ih == size.target_height
    IN  IF size.crop_needed
        THEN [width |-> size.crop_width, height |-> size.crop_height,
              x |-> (iw - size.crop_width) \div 2, y |-> (ih - size.crop_height) \div 2,
              iw |-> iw]
        ELSE [width |-> iw, height |-> ih, x |-> 0, y |-> 0, iw |-> iw]

\* the sides of the sources: every small side and the sides of common frames
SourceSides ==
    (1..MaxSourceSide) \cup {240, 360, 480, 608, 640, 720, 854, 864, 1080, 1280,
                             1440, 1920, 2160, 2560, 3840}

InitForeground ==
    /\ fnIn \in [width : SourceSides, height : SourceSides, slip : BOOLEAN]
    /\ fnOut = [done |-> FALSE]
    /\ NoPipeline

ApplyForeground ==
    /\ fnOut.done = FALSE
    /\ LET size == ForegroundSize(fnIn.width, fnIn.height, fnIn.slip)
       IN  fnOut' = [done |-> TRUE,
                     size |-> size,
                     shown |-> CompositedForeground(size, fnIn.width)]
    /\ UNCHANGED <<fnIn, pipelineVars>>

NextForeground == ApplyForeground

SpecForeground == InitForeground /\ [][NextForeground]_vars

\* C17: for every source with width > 0 and height > 0 the target size of the
\* centre video has an even width and an even height, its height is exactly
\* 1536, and the frame laid over the background is never wider than 1080: a
\* wider one is cropped to 1080 about its centre.
C17_ForegroundSize ==
    fnOut.done =>
        /\ fnOut.size.target_width % 2 = 0
        /\ fnOut.size.target_height % 2 = 0
        /\ fnOut.size.target_height = 1536
        /\ fnOut.shown.width <= 1080
        /\ fnOut.shown.height = 1536
        /\ fnOut.size.crop_needed =>
              /\ fnOut.shown.width = 1080
              /\ fnOut.shown.iw >= 1080
              /\ 2 * fnOut.shown.x \in {fnOut.shown.iw - 1080, fnOut.shown.iw - 1081}

\* C17 witness: a 1920x1080 source is scaled to 2730x1536 and cropped to 1080
C17_Witness ==
    /\ fnOut.done
    /\ fnIn.width = 1920 /\ fnIn.height = 1080
    /\ fnOut.size.target_width = 2730
    /\ fnOut.size.crop_needed
    /\ fnOut.shown.width = 1080

---------------------------------------------------------------------------
(* SpecTitles: the title and the subtitle drawn on a clip *)

\* a key the config does not hold
Missing == "<missing>"

\* video_editor.py:422, 427  'ФРАГМЕНТ'
DefaultTitle == "FRAGMENT"
\* video_editor.py:423, 428  'Часть'
DefaultSubtitle == "Part"

\* dict.get(key, default)
Get(value, default) == IF value = Missing THEN default ELSE value

RECURSIVE Str(_)
\* the decimal digits of f"{clip_number}"
Str(n) == IF n < 10 THEN <<n>> ELSE Str(n \div 10) \o <<n % 10>>

\* a text: its words, then the digits written after them
Plain(template) == [words |-> <<template>>, digits |-> <<>>]

\* f"{template} {clip_number}"
Numbered(template, clip_number) == [words |-> <<template, " ">>, digits |-> Str(clip_number)]

\* the truth of a flag read from the config
Truthy(value) == value = "True"

\* video_editor.py:421-438
TitleText(cfg, clip_number) ==
    LET title_template == IF cfg.given THEN Get(cfg.title, DefaultTitle) ELSE DefaultTitle
        custom_title == IF cfg.given THEN Get(cfg.custom_title, "False") ELSE "False"
    IN  IF Truthy(custom_title) THEN Plain(title_template)
        ELSE Numbered(title_template, clip_number)

\* a subtitle that follows the flag of the title
SubtitleTextByTitleFlag(cfg, clip_number) ==
    LET subtitle_template == IF cfg.given THEN Get(cfg.subtitle, DefaultSubtitle)
                             ELSE DefaultSubtitle
        custom_title == IF cfg.given THEN Get(cfg.custom_title, "False") ELSE "False"
    IN  IF Truthy(custom_title) THEN Plain(subtitle_template)
        ELSE Numbered(subtitle_template, clip_number)

\* video_editor.py:421-431, 440-445
SubtitleText(cfg, clip_number) ==
    LET subtitle_template == IF cfg.given THEN Get(cfg.subtitle, DefaultSubtitle)
                             ELSE DefaultSubtitle
        custom_subtitle == IF cfg.given THEN Get(cfg.custom_subtitle, "False") ELSE "False"
    IN  IF Truthy(custom_subtitle) THEN Plain(subtitle_template)
        ELSE Numbered(subtitle_template, clip_number)

\* video_editor.py:479-480  audio = main_video.audio: the streams of the
\* audio of a clip, whatever the config holds
ClipAudio(cfg) == <<"main_video.audio">>

\* the configs: None or an empty dict (given = FALSE), and dicts holding any
\* of the keys the renderer or the bot know
TitleConfigs ==
    [given : BOOLEAN,
     title : {Missing, DefaultTitle, "MY TITLE"},
     subtitle : {Missing, DefaultSubtitle, "my subtitle"},
     custom_title : {Missing, "True", "False"},
     custom_subtitle : {Missing, "True", "False"},
     music : {Missing, "None", "temp_music.mp3"}]

InitTitles ==
    /\ fnIn \in [cfg : TitleConfigs, clip_number : 1..MaxClipNumber]
    /\ fnOut = [done |-> FALSE]
    /\ NoPipeline

ApplyTitles ==
    /\ fnOut.done = FALSE
    /\ fnOut' = [done |-> TRUE,
                 title_text |-> TitleText(fnIn.cfg, fnIn.clip_number),
                 subtitle_text |-> SubtitleText(fnIn.cfg, fnIn.clip_number),
                 audio |-> ClipAudio(fnIn.cfg)]
    /\ UNCHANGED <<fnIn, pipelineVars>>

NextTitles == ApplyTitles

SpecTitles == InitTitles /\ [][NextTitles]_vars

RECURSIVE NumberOf(_)
\* the number a sequence of decimal digits writes
NumberOf(digits) ==
    IF digits = <<>> THEN 0
    ELSE 10 * NumberOf(SubSeq(digits, 1, Len(digits) - 1)) + digits[Len(digits)]

\* text is template, a space and the decimal writing of n
IsNumbered(text, template, n) ==
    /\ text.words = <<template, " ">>
    /\ Len(text.digits) >= 1
    /\ \A k \in 1..Len(text.digits) : text.digits[k] \in 0..9
    /\ text.digits[1] # 0
    /\ NumberOf(text.digits) = n

\* C18: the title is the configured title unchanged when the config sets
\* custom_title, and otherwise the title template, a space and the ordinal of
\* the clip (counted from 1); the subtitle follows custom_subtitle in the same
\* way, whatever the title does; with no config both are the default templates
\* with the ordinal.
C18_TitleTexts ==
    fnOut.done =>
        LET cfg == fnIn.cfg
            n == fnIn.clip_number
            title == IF cfg.given /\ cfg.title # Missing THEN cfg.title ELSE DefaultTitle
            subtitle == IF cfg.given /\ cfg.subtitle # Missing THEN cfg.subtitle
                        ELSE DefaultSubtitle
        IN  /\ IF cfg.given /\ cfg.custom_title = "True"
               THEN fnOut.title_text = [words |-> <<title>>, digits |-> <<>>]
               ELSE IsNumbered(fnOut.title_text, title, n)
            /\ IF cfg.given /\ cfg.custom_subtitle = "True"
               THEN fnOut.subtitle_text = [words |-> <<subtitle>>, digits |-> <<>>]
               ELSE IsNumbered(fnOut.subtitle_text, subtitle, n)
            /\ ~cfg.given => /\ IsNumbered(fnOut.title_text, DefaultTitle, n)
                             /\ IsNumbered(fnOut.subtitle_text, DefaultSubtitle, n)

\* C18 witness: a custom title next to a numbered default subtitle on clip 12
C18_Witness ==
    /\ fnOut.done
    /\ fnIn.clip_number = 12
    /\ fnIn.cfg.given /\ fnIn.cfg.custom_title = "True" /\ fnIn.cfg.custom_subtitle = Missing
    /\ fnOut.title_text = [words |-> <<"MY TITLE">>, digits |-> <<>>]
    /\ fnOut.subtitle_text = [words |-> <<"Part", " ">>, digits |-> <<1, 2>>]

---------------------------------------------------------------------------
\* C19: every acceleration decision of the pipeline (the cap of the chunk
\* extraction, the encoder of the chunk extraction, the width of the render
\* gate and the encoder the clip renderer tries first) is taken for the GPU
\* only if nvidia-smi finds a GPU, h264_nvenc is in the encoder list and the
\* micro-encode succeeded.
C19_DecisionsNeedAllThree ==
    LET all_three == hw.smi /\ hw.nvenc /\ hw.micro
    IN  /\ max_concurrent > CpuSplitCap => all_three
        /\ \A p \in procs : p.cmd = "nvenc" => all_three
        /\ max_concurrent_ffmpeg = GpuRenderGate => all_three
        /\ \A k \in 1..Len(rs) :
              (rs[k].attempts # <<>> /\ rs[k].attempts[1] = "hw") => all_three

---------------------------------------------------------------------------
(* SpecProbe: VideoEditor.get_video_info applied to probe outputs *)

Raised(error) == [raised |-> TRUE, error |-> error, fps_milli |-> 0]

\* video_editor.py:34-39: r_frame_rate, in thousandths of a frame per second.
\* float(numerator) / float(denominator) raises ZeroDivisionError on a zero
\* denominator; a decimal rate is read as it stands.
ParseFps(rate) ==
    IF rate.rational
    THEN IF rate.den = 0
         THEN Raised("ZeroDivisionError")
         ELSE [raised |-> FALSE, error |-> "", fps_milli |-> (rate.num * 1000) \div rate.den]
    ELSE [raised |-> FALSE, error |-> "", fps_milli |-> rate.num * 1000]

\* video_editor.py:20-50: every exception is logged and raised again
GetVideoInfo(probe) ==
    IF ~probe.readable THEN Raised("ffmpeg.Error")
    ELSE IF ~probe.has_video THEN Raised("ValueError")
    ELSE IF ~probe.parsable THEN Raised("ValueError")
    ELSE ParseFps(probe.rate)

\* what ffmpeg.probe may give: unreadable files, files without a video
\* stream, sizes or durations that are not numbers, and frame rates written
\* 'num/den' or as one number
ProbeOutputs ==
    [readable : BOOLEAN, has_video : BOOLEAN, parsable : BOOLEAN,
     rate : [rational : BOOLEAN, num : 0..MaxRateNum, den : 0..MaxRateDen]]

InitProbe ==
    /\ fnIn \in ProbeOutputs
    /\ fnOut = [done |-> FALSE]
    /\ NoPipeline

ApplyGetVideoInfo ==
    /\ fnOut.done = FALSE
    /\ fnOut' = [done |-> TRUE, info |-> GetVideoInfo(fnIn)]
    /\ UNCHANGED <<fnIn, pipelineVars>>

NextProbe == ApplyGetVideoInfo

SpecProbe == InitProbe /\ [][NextProbe]_vars

\* C20: get_video_info does not raise when the frame rate is 'num/den' with
\* den = 0: it returns an fps of 0; it raises only when the file has no video
\* stream or its metadata cannot be parsed.
C20_ZeroDenominatorIsZeroFps ==
    fnOut.done =>
        /\ fnOut.info.raised => (~fnIn.readable \/ ~fnIn.has_video \/ ~fnIn.parsable)
        /\ (fnIn.readable /\ fnIn.has_video /\ fnIn.parsable
               /\ fnIn.rate.rational /\ fnIn.rate.den = 0)
              => (~fnOut.info.raised /\ fnOut.info.fps_milli = 0)

---------------------------------------------------------------------------
\* C21: split_into_chunks returns the chunk of every task whose extraction
\* succeeded, in source order, and of no other task: a task that failed (by an
\* error or by timeouts) is left out and takes no sibling with it.
C21_FailedChunksExcluded ==
    (pc = "verify" /\ chunk_tasks # <<>>) =>
        /\ \A t \in 1..Len(chunk_tasks) :
              ext[t] = "true" <=> \E n \in 1..Len(chunks) : chunks[n] = chunk_tasks[t].output_path
        /\ \A n \in 1..Len(chunks) : \A m \in 1..Len(chunks) :
              n < m => chunks[n].index < chunks[m].index
        /\ \A n \in 1..Len(chunks) : chunks[n] \in files

\* C21 witness: of three tasks the second failed and the other two are returned
C21_Witness ==
    /\ pc = "verify"
    /\ Len(chunk_tasks) = 3
    /\ ext = <<"true", "false", "true">>
    /\ chunks = <<ChunkFile(0), ChunkFile(2)>>

\* C22: a chunk task is reported as failed only after its software fallback
\* was attempted: whenever the first attempt fails, by timeout or by error,
\* with or without acceleration, the fallback runs before the task's result
\* becomes False.
C22_FallbackBeforeFailure ==
    [][\A t \in 1..Len(ext) :
          (Len(ext') = Len(ext) /\ ext[t] # "false" /\ ext'[t] = "false") =>
              \/ ext[t] = "fallback"
              \/ \E p \in procs : p.task = t /\ p.awaited /\ p.cmd = "fallback"]_vars

\* C23 as stated: the first strategy attempted for a chunk task is the stream
\* copy, and a re-encode follows only a stream copy
C23_Original ==
    \A t \in 1..Len(tried) :
        /\ tried[t] # <<>> => tried[t][1] = "copy"
        /\ \A k \in 2..Len(tried[t]) : tried[t][k] # "copy"

\* a step starts one more command for task t
StartsAnother(t) ==
    /\ Len(tried') = Len(tried)
    /\ tried[t] # <<>>
    /\ Len(tried'[t]) > Len(tried[t])

\* C23 (amended): no stream copy is attempted. For every chunk task the first
\* attempt is the hardware-accelerated re-encode when acceleration is
\* available and the software re-encode otherwise; every later attempt is the
\* software re-encode, and it starts only in a step in which a hardware
\* attempt of the task failed or the task's first wait timed out.
C23_StrategyOrder ==
    /\ [](\A t \in 1..Len(tried) :
             /\ \A k \in 1..Len(tried[t]) : tried[t][k] \in {"nvenc", "x264", "fallback"}
             /\ tried[t] # <<>> =>
                   tried[t][1] = (IF hw.smi /\ hw.nvenc /\ hw.micro THEN "nvenc" ELSE "x264")
             /\ \A k \in 2..Len(tried[t]) : tried[t][k] = "fallback"
             /\ ext[t] \in {"first", "fallback", "true", "false"} <=> tried[t] # <<>>)
    /\ [][\A t \in 1..Len(tried) :
             StartsAnother(t) =>
                \/ ext[t] = "first" /\ timeouts' = timeouts + 1
                \/ /\ faults' = faults + 1
                   /\ \E p \in procs : p.task = t /\ p.cmd = "nvenc" /\ p \notin procs']_vars

\* C23 witness: the hardware attempt of a task failed and its software
\* re-encode produced the chunk
C23_Witness ==
    \E t \in 1..Len(tried) :
        /\ tried[t] = <<"nvenc", "fallback">>
        /\ ext[t] = "true"
        /\ chunk_tasks[t].output_path \in files

\* C24: in process_video_file a chunk that is missing, or that exists but
\* cannot be probed, is dropped and the job goes on with the remaining chunks:
\* while a readable chunk exists the verification ends in the chunk loop, over
\* exactly the readable chunks.
C24_UnreadableChunkDropped ==
    [][(pc = "verify" /\ \E n \in 1..Len(chunks) : Readable(chunks[n])) =>
          \/ pc' = "verify"
          \/ pc' = "loop" /\ chunks' = SelectSeq(chunks, Readable)]_vars

RECURSIVE ExpectedIn(_)
\* the sum, over the chunks given to _process_chunk_parallel, of
\* floor(chunk duration / clip duration)
ExpectedIn(paths) ==
    IF paths = <<>> THEN 0
    ELSE (ProbeSeconds(Head(paths)) \div config.duration) + ExpectedIn(Tail(paths))

C27_NothingBlocksTheLoop ==
    blocked = {}

\* the music track a config names, if any (bot.py:35, 398)
MusicOf(cfg) ==
    IF cfg.given /\ cfg.music \notin {Missing, "None"} THEN <<cfg.music>> ELSE <<>>

\* C28: when the config names a background music track the audio of a clip is
\* the original audio with that track mixed under it; without music it is the
\* original audio alone.
C28_MusicMixedUnder ==
    fnOut.done => fnOut.audio = <<"main_video.audio">> \o MusicOf(fnIn.cfg)

---------------------------------------------------------------------------
(* SpecBot: the settings commands and the jobs of one user of the bot *)

\* bot.py:31, 272 and video_processor.py:55  the default clip duration
DefaultDuration == 30

\* bot.py:30-36 and 272-278: the settings of /start and the default argument
\* of handle_message (banner and music left out); bot.py:99-103, 126-130
NewSettings ==
    [given |-> TRUE, duration |-> DefaultDuration, title |-> DefaultTitle,
     subtitle |-> DefaultSubtitle, custom_title |-> Missing, custom_subtitle |-> Missing]

\* bot.py:71-73: the dict {} that /duration creates, with its duration set
\* (0: no 'duration' key)
EmptySettings ==
    [given |-> TRUE, duration |-> 0, title |-> Missing, subtitle |-> Missing,
     custom_title |-> Missing, custom_subtitle |-> Missing]

\* video_processor.py:55  config.get('duration', 30)
DurationOf(settings) == IF settings.duration = 0 THEN DefaultDuration ELSE settings.duration

\* the messages of the user
Updates == {"/start", "/title LESSON", "/subtitle Chapter", "/duration 60", "video"}

ConcurrentUpdatesEnabled == TRUE

\* bot.py:482  Application.builder().token(self.token).build(): the
\* application is built without concurrent_updates, so it awaits the handler
\* of one update before it takes the next
ConcurrentUpdates == FALSE

\* the user sends a message
Send(u) ==
    /\ updates.sent < MaxUpdates
    /\ updates' = [queue |-> Append(updates.queue, u), sent |-> updates.sent + 1]
    /\ UNCHANGED <<fnIn, fnOut, pipelineCore, waiting_for_music, dicts, user_settings, handling, shots>>

\* the application takes the next update
Takes(u) ==
    /\ updates.queue # <<>>
    /\ Head(updates.queue) = u
    /\ ConcurrentUpdates \/ handling.config = 0
    /\ updates' = [updates EXCEPT !.queue = Tail(@)]

\* the dict of the user, created with initial when there is none
Stored(initial) == IF user_settings = 0 THEN Append(dicts, initial) ELSE dicts
StoredAt == IF user_settings = 0 THEN Len(dicts) + 1 ELSE user_settings

\* bot.py:27-36
Start ==
    /\ Takes("/start")
    /\ dicts' = Append(dicts, NewSettings)
    /\ user_settings' = Len(dicts) + 1
    /\ UNCHANGED <<fnIn, fnOut, pipelineCore, waiting_for_music, handling, shots>>

\* bot.py:94  len(title) > 50, bot.py:121  len(subtitle) > 50
MaxTextLength == 50

\* bot.py:71  duration < 5 or duration > 300
MinDuration == 5
MaxDuration == 300

\* bot.py:93-107: /title with the text title
SetTitleTo(title) ==
    IF Len(title) > MaxTextLength
    THEN UNCHANGED <<dicts, user_settings>>
    ELSE /\ dicts' = [Stored(NewSettings) EXCEPT ![StoredAt].title = title,
                                                 ![StoredAt].custom_title = "True"]
         /\ user_settings' = StoredAt

\* bot.py:120-134: /subtitle with the text subtitle
SetSubtitleTo(subtitle) ==
    IF Len(subtitle) > MaxTextLength
    THEN UNCHANGED <<dicts, user_settings>>
    ELSE /\ dicts' = [Stored(NewSettings) EXCEPT ![StoredAt].subtitle = subtitle,
                                                 ![StoredAt].custom_subtitle = "True"]
         /\ user_settings' = StoredAt

DurationInRangeNoLowerLimit(duration) == duration <= MaxDuration

\* bot.py:71  the durations that /duration takes
DurationInRange(duration) == ~(duration < MinDuration \/ duration > MaxDuration)

\* bot.py:69-82: /duration with the number parsed from its argument
SetDurationTo(parsed) ==
    IF parsed.raised \/ ~DurationInRange(parsed.value)
    THEN UNCHANGED <<dicts, user_settings>>
    ELSE /\ dicts' = [Stored(EmptySettings) EXCEPT ![StoredAt].duration = parsed.value]
         /\ user_settings' = StoredAt

\* bot.py:84-109
SetTitle ==
    /\ Takes("/title LESSON")
    /\ SetTitleTo("LESSON")
    /\ UNCHANGED <<fnIn, fnOut, pipelineCore, waiting_for_music, handling, shots>>

\* bot.py:111-136
SetSubtitle ==
    /\ Takes("/subtitle Chapter")
    /\ SetSubtitleTo("Chapter")
    /\ UNCHANGED <<fnIn, fnOut, pipelineCore, waiting_for_music, handling, shots>>

\* bot.py:60-82
SetDuration ==
    /\ Takes("/duration 60")
    /\ SetDurationTo([raised |-> FALSE, value |-> 60])
    /\ UNCHANGED <<fnIn, fnOut, pipelineCore, waiting_for_music, handling, shots>>

\* bot.py:247-291, 434-445 and video_processor.py:55: handle_message gives the
\* stored dict itself, or a new default dict, to the job, which reads the clip
\* duration once
HandleVideo ==
    /\ handling.config = 0
    /\ Takes("video")
    /\ dicts' = Stored(NewSettings)
    /\ handling' = [config |-> StoredAt,
                    duration |-> DurationOf(Stored(NewSettings)[StoredAt]),
                    clip_number |-> 1,
                    started |-> Stored(NewSettings)[StoredAt]]
    /\ UNCHANGED <<fnIn, fnOut, pipelineCore, waiting_for_music, user_settings, shots>>

\* video_processor.py:733-756 and video_editor.py:420-445: a clip of the job
\* is rendered; its texts are read from the config dict at that moment
RenderShot ==
    /\ handling.config # 0
    /\ handling.clip_number <= JobClips
    /\ shots' = Append(shots,
                       [clip_number |-> handling.clip_number,
                        duration |-> handling.duration,
                        title_text |-> TitleText(dicts[handling.config], handling.clip_number),
                        subtitle_text |-> SubtitleText(dicts[handling.config],
                                                       handling.clip_number),
                        started |-> handling.started,
                        waiting |-> updates.queue])
    /\ handling' = [handling EXCEPT !.clip_number = @ + 1]
    /\ UNCHANGED <<fnIn, fnOut, pipelineCore, waiting_for_music, dicts, user_settings, updates>>

\* bot.py:445-458: the job returns and handle_message ends
FinishJob ==
    /\ handling.config # 0
    /\ handling.clip_number > JobClips
    /\ handling' = NoJob
    /\ UNCHANGED <<fnIn, fnOut, pipelineCore, waiting_for_music, dicts, user_settings, updates, shots>>

InitBot ==
    /\ NoPlanner
    /\ hw = [smi |-> FALSE, nvenc |-> FALSE, micro |-> FALSE]
    /\ files = {}
    /\ QuietMachine
    /\ NothingDone
    /\ IdleChunk
    /\ IdleSplit
    /\ IdleJob
    /\ NoBot

NextBot ==
    \/ \E u \in Updates : Send(u)
    \/ Start
    \/ SetTitle
    \/ SetSubtitle
    \/ SetDuration
    \/ HandleVideo
    \/ RenderShot
    \/ FinishJob

SpecBot == InitBot /\ [][NextBot]_vars

\* C29: every clip of a job is rendered with the clip duration, the title,
\* the subtitle and the custom flags that the config held when the job
\* started, and the config of a running job does not change: a settings
\* command that arrives during the job does not reach its remaining clips.
C29_ConfigFixedForJob ==
    /\ \A k \in 1..Len(shots) :
          /\ shots[k].title_text = TitleText(shots[k].started, shots[k].clip_number)
          /\ shots[k].subtitle_text = SubtitleText(shots[k].started, shots[k].clip_number)
          /\ shots[k].duration = DurationOf(shots[k].started)
    /\ handling.config # 0 => dicts[handling.config] = handling.started

\* C29 witness: the second clip of a job rendered while /title waits
C29_Witness ==
    \E k \in 1..Len(shots) :
        /\ shots[k].clip_number = 2
        /\ shots[k].waiting # <<>>
        /\ Head(shots[k].waiting) = "/title LESSON"
        /\ shots[k].title_text = Numbered(DefaultTitle, 2)

\* C30: after '/title T' the clips of the user's next job carry 'T n', and
\* after '/subtitle S' they carry 'S n', n being the ordinal of the clip
C30_CommandTextNumbered ==
    \A k \in 1..Len(shots) :
        /\ shots[k].started.custom_title = "True" =>
              IsNumbered(shots[k].title_text, shots[k].started.title, shots[k].clip_number)
        /\ shots[k].started.custom_subtitle = "True" =>
              IsNumbered(shots[k].subtitle_text, shots[k].started.subtitle,
                         shots[k].clip_number)

---------------------------------------------------------------------------
(* SpecSettings: the settings commands with their arguments *)

\* the decimal digits
DigitValue(c) ==
    CASE c = "0" -> 0 [] c = "1" -> 1 [] c = "2" -> 2 [] c = "3" -> 3 [] c = "4" -> 4
      [] c = "5" -> 5 [] c = "6" -> 6 [] c = "7" -> 7 [] c = "8" -> 8 [] c = "9" -> 9
      [] OTHER -> 10

IsDigits(word) == Len(word) > 0 /\ \A k \in 1..Len(word) : DigitValue(word[k]) < 10

RECURSIVE DigitsValue(_)
DigitsValue(word) ==
    IF word = <<>> THEN 0
    ELSE 10 * DigitsValue(SubSeq(word, 1, Len(word) - 1)) + DigitValue(word[Len(word)])

\* bot.py:70, 80  int(context.args[0]): an optional sign and decimal digits,
\* ValueError otherwise
ParseInt(word) ==
    IF IsDigits(word) THEN [raised |-> FALSE, value |-> DigitsValue(word)]
    ELSE IF Len(word) > 1 /\ word[1] = "-" /\ IsDigits(Tail(word))
         THEN [raised |-> FALSE, value |-> 0 - DigitsValue(Tail(word))]
    ELSE IF Len(word) > 1 /\ word[1] = "+" /\ IsDigits(Tail(word))
         THEN [raised |-> FALSE, value |-> DigitsValue(Tail(word))]
    ELSE [raised |-> TRUE, value |-> 0]

\* arguments of /duration: around both limits, negative, signed, not numbers
DurationWords ==
    {<<"0">>, <<"4">>, <<"5">>, <<"6", "0">>, <<"3", "0", "0">>, <<"3", "0", "1">>,
     <<"-", "5">>, <<"+", "7">>, <<"a", "b">>, <<"5", ".", "5">>, <<"-">>}

\* arguments of /title and /subtitle: 6, 50 and 51 characters
Texts ==
    {"LESSON",
     "12345678901234567890123456789012345678901234567890",
     "123456789012345678901234567890123456789012345678901"}

\* the command that the step handled
Handled(command, word, text) ==
    /\ updates.sent < MaxUpdates
    /\ updates' = [updates EXCEPT !.sent = @ + 1]
    /\ fnIn' = [command |-> command, word |-> word, text |-> text]
    /\ UNCHANGED <<fnOut, pipelineCore, waiting_for_music, handling, shots>>

\* bot.py:27-36
CommandStart ==
    /\ Handled("/start", <<>>, "")
    /\ dicts' = Append(dicts, NewSettings)
    /\ user_settings' = Len(dicts) + 1

\* bot.py:60-82
CommandDuration ==
    \E word \in DurationWords :
        /\ Handled("/duration", word, "")
        /\ SetDurationTo(ParseInt(word))

\* bot.py:84-109
CommandTitle ==
    \E text \in Texts :
        /\ Handled("/title", <<>>, text)
        /\ SetTitleTo(text)

\* bot.py:111-136
CommandSubtitle ==
    \E text \in Texts :
        /\ Handled("/subtitle", <<>>, text)
        /\ SetSubtitleTo(text)

InitSettings ==
    /\ hw = [smi |-> FALSE, nvenc |-> FALSE, micro |-> FALSE]
    /\ files = {}
    /\ QuietMachine
    /\ NothingDone
    /\ IdleChunk
    /\ IdleSplit
    /\ IdleJob
    /\ NoBot
    /\ fnIn = [command |-> "", word |-> <<>>, text |-> ""]
    /\ fnOut = [done |-> FALSE]

NextSettings ==
    \/ CommandStart
    \/ CommandDuration
    \/ CommandTitle
    \/ CommandSubtitle

SpecSettings == InitSettings /\ [][NextSettings]_vars

\* the command of fnIn is one that its handler rejects
Rejected(in) ==
    \/ in.command = "/duration" /\ ( \/ ParseInt(in.word).raised
                                    \/ ParseInt(in.word).value < MinDuration
                                    \/ ParseInt(in.word).value > MaxDuration )
    \/ in.command \in {"/title", "/subtitle"} /\ Len(in.text) > MaxTextLength

\* the settings record holds a duration of 5..300 or none, and texts of at
\* most 50 characters
SettingsInRange(settings) ==
    /\ settings.duration = 0 \/ settings.duration \in MinDuration..MaxDuration
    /\ settings.title = Missing \/ Len(settings.title) <= MaxTextLength
    /\ settings.subtitle = Missing \/ Len(settings.subtitle) <= MaxTextLength

\* C31 (state part): after any sequence of commands the stored clip duration
\* is absent or an integer of 5..300 and a stored title or subtitle has at
\* most 50 characters.
C31_SettingsInRange ==
    user_settings # 0 => SettingsInRange(dicts[user_settings])

\* C31 (step part): a rejected /duration, /title or /subtitle command leaves
\* the settings of the user unchanged.
C31_RejectedChangesNothing ==
    [][Rejected(fnIn') => UNCHANGED <<dicts, user_settings>>]_vars

\* C31: the stored settings stay in their ranges and rejected commands change
\* nothing
C31_StoredSettingsValid == []C31_SettingsInRange /\ C31_RejectedChangesNothing

\* C31 witness: both limits were stored, and the last command was rejected
C31_Witness ==
    /\ Rejected(fnIn)
    /\ user_settings # 0
    /\ dicts[user_settings].duration = MinDuration
    /\ Len(dicts[user_settings].title) = MaxTextLength

---------------------------------------------------------------------------
(* Spec: the abandoned first attempt of a chunk task *)

\* C32: when the first extraction attempt of a chunk times out it is abandoned
\* before the fallback runs: at every moment at most one extraction process
\* writes a given chunk file.
C32_OneWriterPerChunkFile ==
    \A p \in procs : ~ConcurrentWriter(p)

---------------------------------------------------------------------------
(* SpecLive: the job when processes exit and collaborators return *)

\* the steps of the coroutines of the job: the event loop runs a coroutine
\* that is ready, and transcription and publishing return
JobStep ==
    \/ StartJob
    \/ SplitStart
    \/ NextBatch
    \/ SplitReturn
    \/ VerifyChunks
    \/ LoopCall
    \/ ChunkStep
    \/ LoopReturn
    \/ EndLoop
    \/ Upload
    \/ WriteLinks
    \/ CleanupAndReturn

\* an ffmpeg process of a chunk extraction exits
SomeProcessExits == \E p \in procs : ProcessExits(p)

SpecLive == Init /\ [][Next]_vars /\ WF_vars(JobStep) /\ WF_vars(SomeProcessExits)

\* the commands started for every chunk task and the encode attempts of
\* every render stay within their fixed numbers
AttemptsBounded ==
    /\ \A t \in 1..Len(tried) : Len(tried[t]) <= 3
    /\ \A k \in Pieces : Len(rs[k].attempts) <= 2

\* C33: when every external process eventually exits and transcription and
\* publishing eventually return, process_video_file eventually returns a
\* result for every source; every chunk extraction task makes a bounded number
\* of attempts and every render at most two encode attempts.
C33_JobReturns ==
    /\ <>(pc = "returned" /\ result # NoneValue)
    /\ []AttemptsBounded

\* C33 witness: the job returned although a chunk task started a second
\* command and a render failed
C33_Witness ==
    /\ pc = "returned"
    /\ result # NoneValue
    /\ \E t \in 1..Len(tried) : Len(tried[t]) >= 2
    /\ failed # {}

---------------------------------------------------------------------------
(* Spec: the acceleration probe of the processor *)

\* C34: the acceleration probe, with its test encode, is executed at most
\* once: every later capability query of chunk extraction and of the render
\* gate reuses the first result.
C34_ProbedAtMostOnce ==
    Len(probes) <= 1

---------------------------------------------------------------------------
(* Spec: the order of the clips given to the publisher *)

\* C35: the list of produced clip paths that process_video_file gives to the
\* publisher is ordered by strictly increasing clip ordinal, whatever the
\* order in which the renders of a chunk completed and whichever failed.
C35_ClipsInOrdinalOrder ==
    \A m, n \in 1..Len(all_clips) :
        m < n => all_clips[m].index < all_clips[n].index

\* C35 witness: the clips of two chunks are given to the publisher, a render
\* of the first chunk having failed
C35_Witness ==
    /\ pc = "uploaded"
    /\ Len(all_clips) >= 2
    /\ Len(chunks) >= 2
    /\ \E n \in failed : n < all_clips[Len(all_clips)].index
    /\ \E n \in 1..Len(all_clips) : all_clips[n].index <= ChunkSeconds \div config.duration

---------------------------------------------------------------------------
(* Spec: the numbers under which the clips are published *)

\* C36: for every published clip the number under which it is published (its
\* remote file name, the clip_number of its result and the index of its
\* manifest line) equals the ordinal in its local file name, also when the
\* render of an earlier ordinal failed.
C36_PublishedUnderLocalOrdinal ==
    /\ \A n \in 1..Len(upload_results) :
          upload_results[n].success =>
              /\ upload_results[n].clip_number = upload_results[n].file_id.index
              /\ upload_results[n].file_name = ClipPath(upload_results[n].file_id.index)
    /\ links_file.kind = "links" =>
          \A n \in 1..Len(links_file.lines) :
              links_file.lines[n].index = links_file.lines[n].url.index

---------------------------------------------------------------------------
(* SpecClips: VideoEditor.create_clips_parallel with a given max_parallel *)

ClipBatchUnlimited(first, size, n) == {k \in 1..n : first <= k}

\* video_editor.py:140-141  clips_to_create[i:i + max_parallel]
ClipBatch(first, size, n) == {k \in 1..n : first <= k /\ k < first + size}

\* the clips of the batch that starts at first
ThisBatch == ClipBatch(batch, fnIn.max_parallel, Len(piece_tasks))

RECURSIVE BatchResults(_, _)
\* video_editor.py:153-160: the results of the batch, in the order of the batch
BatchResults(first, last) ==
    IF first > last THEN <<>>
    ELSE (IF rs[first] = "ok" THEN <<piece_tasks[first].output_path>> ELSE <<>>)
         \o BatchResults(first + 1, last)

InitClips ==
    /\ fnIn \in [total : 0..MaxClipsTotal, clip : 1..2, index : 0..1,
                 max_parallel : 1..MaxParallelGiven, readable : BOOLEAN]
    /\ fnOut = [done |-> FALSE]
    /\ hw = [smi |-> FALSE, nvenc |-> FALSE, micro |-> FALSE]
    /\ files = {}
    /\ QuietMachine
    /\ NothingDone
    /\ NoBot
    /\ cpc = "plan"
    /\ call = NoCall
    /\ ChunkLocals
    /\ IdleSplit
    /\ IdleJob

\* video_editor.py:86-121, 137-140 and 172-175: the plan; get_video_info may
\* raise, and then [] is returned
ClipsPlan ==
    /\ cpc = "plan"
    /\ IF fnIn.readable
       THEN LET clips_to_create == ClipsToCreate(fnIn.total, fnIn.clip, fnIn.index)
            IN  /\ piece_tasks' = clips_to_create
                /\ rs' = [k \in 1..Len(clips_to_create) |-> "planned"]
                /\ batch' = 1
                /\ cpc' = IF clips_to_create = <<>> THEN "returned" ELSE "batch"
       ELSE /\ cpc' = "returned"
            /\ UNCHANGED <<piece_tasks, rs, batch>>
    /\ UNCHANGED <<planVars, envVars, logVars, blocked, probes, jobVars, publishVars,
                   call, subtitles, transcript, max_concurrent_ffmpeg, semaphore,
                   created_clips, chunk_tasks, max_concurrent, ext, tried>>

\* video_editor.py:140-150: the renders of the batch are started together
BatchStart ==
    /\ cpc = "batch"
    /\ rs' = [k \in 1..Len(rs) |-> IF k \in ThisBatch THEN "running" ELSE rs[k]]
    /\ cpc' = "gather"
    /\ UNCHANGED <<planVars, envVars, logVars, blocked, probes, jobVars, publishVars,
                   call, subtitles, transcript, piece_tasks, max_concurrent_ffmpeg,
                   semaphore, created_clips, splitVars>>

\* video_editor.py:177-207: a render ends. _create_single_clip gives the path
\* when create_styled_clip succeeded and the file exists, None otherwise,
\* also when create_styled_clip raised
RenderEnds(k) ==
    /\ cpc = "gather"
    /\ k \in 1..Len(rs)
    /\ rs[k] = "running"
    /\ \E outcome \in {"ok", "no file", "failed", "raised"} :
          /\ outcome = "ok" \/ faults < MaxFaults
          /\ faults' = IF outcome = "ok" THEN faults ELSE faults + 1
          /\ files' = IF outcome = "ok" THEN files \cup {piece_tasks[k].output_path}
                                        ELSE files
          /\ rs' = [rs EXCEPT ![k] = outcome]
    /\ UNCHANGED <<planVars, logVars, blocked, probes, jobVars, publishVars, splitVars,
                   hw, timeouts, corrupt, encoding, procs,
                   cpc, call, subtitles, transcript, piece_tasks, max_concurrent_ffmpeg,
                   semaphore, created_clips>>

\* video_editor.py:150-170: the gather of the batch ends, its results are
\* collected, and the next batch or the return follows
BatchCollect ==
    /\ cpc = "gather"
    /\ \A k \in ThisBatch : rs[k] # "running"
    /\ created_clips' = created_clips
                          \o BatchResults(batch, batch + Cardinality(ThisBatch) - 1)
    /\ IF batch + fnIn.max_parallel <= Len(piece_tasks)
       THEN /\ batch' = batch + fnIn.max_parallel
            /\ cpc' = "batch"
       ELSE /\ batch' = batch
            /\ cpc' = "returned"
    /\ UNCHANGED <<planVars, envVars, logVars, blocked, probes, jobVars, publishVars,
                   call, subtitles, transcript, piece_tasks, max_concurrent_ffmpeg,
                   semaphore, rs, chunk_tasks, max_concurrent, ext, tried>>

NextClips ==
    \/ ClipsPlan
    \/ BatchStart
    \/ \E k \in 1..Len(rs) : RenderEnds(k)
    \/ BatchCollect

SpecClips == InitClips /\ [][NextClips]_vars

RunningClips == {k \in 1..Len(rs) : rs[k] = "running"}

\* the paths of the planned clips from the k-th on whose render gave a file
RECURSIVE SucceededFrom(_)
SucceededFrom(k) ==
    IF k > Len(rs) THEN <<>>
    ELSE (IF rs[k] = "ok" THEN <<piece_tasks[k].output_path>> ELSE <<>>)
         \o SucceededFrom(k + 1)

\* C37: create_clips_parallel called with max_parallel = m >= 1 never has more
\* than m renders in flight, starts a batch only after every render of the
\* previous batch completed, and returns exactly the output paths of the
\* planned clips whose render succeeded and whose file exists, in plan order;
\* a failed clip does not keep later batches from running.
C37_BatchesWithinMaxParallel ==
    /\ Cardinality(RunningClips) <= fnIn.max_parallel
    /\ \A k \in 1..Len(rs) :
          /\ rs[k] = "running" => batch <= k /\ k < batch + fnIn.max_parallel
          /\ k < batch => rs[k] \notin {"planned", "running"}
          /\ k >= batch + fnIn.max_parallel => rs[k] = "planned"
    /\ cpc = "returned" =>
          /\ \A k \in 1..Len(rs) : rs[k] \notin {"planned", "running"}
          /\ created_clips = SucceededFrom(1)
          /\ \A n \in 1..Len(created_clips) : created_clips[n] \in files

\* C37 witness: four clips rendered two at a time; the first failed, and the
\* clips of both batches are returned
C37_Witness ==
    /\ cpc = "returned"
    /\ fnIn.max_parallel = 2
    /\ Len(rs) = 4
    /\ rs[1] = "failed"
    /\ Len(created_clips) = 3

---------------------------------------------------------------------------
(* SpecUpload: GoogleDriveUploader.upload_clips, attempt by attempt *)

\* what an upload leaves alone
outsideUpload == <<fnIn, botVars, envVars, logVars, blocked, probes, chunkVars,
                   chunk_tasks, max_concurrent, batch, ext,
                   src, config, chunks, all_clips, total_expected_clips,
                   links_file, result>>

InitUpload ==
    /\ fnIn \in [clips : 1..MaxUploadClips]
    /\ fnOut = [done |-> FALSE, service |-> FALSE]
    /\ hw = [smi |-> FALSE, nvenc |-> FALSE, micro |-> FALSE]
    /\ files = {}
    /\ QuietMachine
    /\ NothingDone
    /\ NoBot
    /\ IdleChunk
    /\ chunk_tasks = <<>>
    /\ max_concurrent = 0
    /\ batch = 0
    /\ ext = <<>>
    /\ tried = [k \in 1..fnIn.clips |-> <<>>]
    /\ pc = "upload_clips"
    /\ src = [duration |-> 0, frac |-> FALSE]
    /\ config = [duration |-> 0]
    /\ chunks = <<>>
    /\ i = 0
    /\ all_clips = <<>>
    /\ total_expected_clips = 0
    /\ upload_results = <<>>
    /\ links_file = NoneValue
    /\ result = NoneValue

\* google_drive_uploader.py:55-68 and 88-90: the service is initialised and
\* the folder created; when _init_service raises every clip gets a failure
\* and no upload is attempted
UploadStart ==
    /\ pc = "upload_clips"
    /\ \E service_ok \in BOOLEAN :
          IF service_ok
          THEN /\ fnOut' = [fnOut EXCEPT !.service = TRUE]
               /\ i' = 1
               /\ pc' = "uploading"
               /\ upload_results' = upload_results
          ELSE /\ upload_results' = [k \in 1..fnIn.clips |-> [success |-> FALSE]]
               /\ pc' = "returned"
               /\ UNCHANGED <<fnOut, i>>
    /\ UNCHANGED <<outsideUpload, tried>>

\* the result of the clip is known: the next clip, or the return (70-86)
Reported(r) ==
    /\ upload_results' = Append(upload_results, r)
    /\ i' = i + 1
    /\ pc' = IF i = fnIn.clips THEN "returned" ELSE "uploading"

\* google_drive_uploader.py:92-172: one attempt of _upload_clip_sync for the
\* clip i. Without a service every attempt raises AttributeError. After a
\* failed attempt that is not the last the service is initialised again when
\* the error names SSL (166-169); what _init_service raises there leaves the
\* loop of the attempts, and _upload_single_clip makes it the clip's failure.
UploadAttempt ==
    /\ pc = "uploading"
    /\ \E outcome \in {"ok", "error", "SSL error"} :
          /\ fnOut.service \/ outcome = "error"
          /\ tried' = [tried EXCEPT ![i] = Append(@, outcome)]
          /\ IF outcome = "ok"
             THEN /\ Reported([success |-> TRUE, clip_number |-> i])
                  /\ fnOut' = fnOut
             ELSE IF Len(tried[i]) < MaxRetries - 1
                  THEN IF outcome = "SSL error"
                       THEN \E init_ok \in BOOLEAN :
                               /\ fnOut' = [fnOut EXCEPT !.service = init_ok]
                               /\ IF init_ok
                                  THEN UNCHANGED <<upload_results, i, pc>>
                                  ELSE Reported([success |-> FALSE, clip_number |-> i])
                       ELSE UNCHANGED <<fnOut, upload_results, i, pc>>
                  ELSE /\ Reported([success |-> FALSE, clip_number |-> i])
                       /\ fnOut' = fnOut
    /\ UNCHANGED outsideUpload

NextUpload ==
    \/ UploadStart
    \/ UploadAttempt

SpecUpload == InitUpload /\ [][NextUpload]_vars

\* C38: the upload of each clip is attempted at most 3 times and stops at the
\* first successful attempt; a clip is reported as failed only after all 3
\* attempts failed; and the failure of one clip does not keep the clips after
\* it from being attempted.
C38_ThreeAttemptsBeforeFailure ==
    /\ \A k \in 1..Len(tried) :
          /\ Len(tried[k]) <= MaxRetries
          /\ \A a \in 1..Len(tried[k]) : tried[k][a] = "ok" => a = Len(tried[k])
    /\ \A k \in 1..Len(upload_results) :
          ~upload_results[k].success =>
              /\ Len(tried[k]) = MaxRetries
              /\ \A a \in 1..MaxRetries : tried[k][a] # "ok"
    /\ pc = "returned" => \A k \in 1..Len(tried) : tried[k] # <<>>

---------------------------------------------------------------------------
(* SpecMusic: /music and the messages that follow it *)

User == "user"

\* the messages of the user: two commands, an audio file, a video file, a
\* YouTube link and another text
Messages == {"/music", "/cancel", "audio", "video", "link", "text"}

\* message.text is set
HasText(m) == m \in {"/music", "/cancel", "link", "text"}

\* bot.py:484-493: the commands that have a CommandHandler (of the messages
\* above: /music)
HasCommandHandler(m) == m = "/music"

\* bot.py:494  MessageHandler(filters.TEXT | filters.VIDEO, handle_message)
ForHandleMessage(m) == HasText(m) \/ m = "video"

\* the message is received by the application, which is not in a handler
Receives(m) ==
    /\ updates.sent < MaxUpdates
    /\ handling.config = 0
    /\ updates' = [updates EXCEPT !.sent = @ + 1]
    /\ fnIn' = [message |-> m]

\* bot.py:396-398: the dict {} created for the music, with the path stored
MusicSettings(path) ==
    [given |-> TRUE, duration |-> 0, title |-> Missing, subtitle |-> Missing,
     custom_title |-> Missing, custom_subtitle |-> Missing, music |-> path]

\* the music of the user's settings
StoredMusic ==
    IF user_settings = 0 THEN Missing
    ELSE IF "music" \in DOMAIN dicts[user_settings] THEN dicts[user_settings].music
    ELSE Missing

\* bot.py:172-182
SetMusic ==
    /\ Receives("/music")
    /\ waiting_for_music' = waiting_for_music \cup {User}
    /\ UNCHANGED <<fnOut, pipelineCore, dicts, user_settings, handling, shots>>

\* bot.py:385-415: the message of a user who is waiting for music
ProcessMusicInput(m) ==
    IF m = "audio"
    THEN \E downloaded \in BOOLEAN :
            /\ waiting_for_music' = waiting_for_music \ {User}
            /\ IF downloaded
               THEN /\ dicts' = Append(dicts, MusicSettings("temp_music.mp3"))
                    /\ user_settings' = Len(dicts) + 1
               ELSE UNCHANGED <<dicts, user_settings>>
    ELSE UNCHANGED <<waiting_for_music, dicts, user_settings>>

\* bot.py:247-291: handle_message, for the messages that its filter lets in
HandleMessage ==
    \E m \in Messages :
        /\ ForHandleMessage(m)
        /\ ~HasCommandHandler(m)
        /\ Receives(m)
        /\ IF User \in waiting_for_music
           THEN /\ IF m = "/cancel"
                   THEN /\ waiting_for_music' = waiting_for_music \ {User}
                        /\ UNCHANGED <<dicts, user_settings>>
                   ELSE ProcessMusicInput(m)
                /\ handling' = handling
           ELSE /\ IF m \in {"link", "video"}
                   THEN /\ dicts' = Stored(NewSettings)
                        /\ handling' = [config |-> StoredAt,
                                        duration |-> DurationOf(Stored(NewSettings)[StoredAt]),
                                        clip_number |-> 1,
                                        started |-> Stored(NewSettings)[StoredAt]]
                   ELSE UNCHANGED <<dicts, handling>>
                /\ UNCHANGED <<waiting_for_music, user_settings>>
        /\ UNCHANGED <<fnOut, pipelineCore, shots>>

\* bot.py:484-495: a message that no handler takes is dropped
NoHandler ==
    \E m \in Messages :
        /\ ~HasCommandHandler(m)
        /\ ~ForHandleMessage(m)
        /\ Receives(m)
        /\ UNCHANGED <<fnOut, pipelineCore, dicts, user_settings, handling, shots,
                       waiting_for_music>>

InitMusic ==
    /\ hw = [smi |-> FALSE, nvenc |-> FALSE, micro |-> FALSE]
    /\ files = {}
    /\ QuietMachine
    /\ NothingDone
    /\ IdleChunk
    /\ IdleSplit
    /\ IdleJob
    /\ NoBot
    /\ fnIn = [message |-> ""]
    /\ fnOut = [done |-> FALSE]

NextMusic ==
    \/ SetMusic
    \/ HandleMessage
    \/ NoHandler
    \/ RenderShot
    \/ FinishJob

SpecMusic == InitMusic /\ [][NextMusic]_vars

\* the step is the user sending the message m
Sends(m) == updates'.sent = updates.sent + 1 /\ fnIn'.message = m

\* C39: a user who issued /music is waiting for music; from that state an
\* audio file is stored as the user's music and ends the state, /cancel ends
\* the state and changes no setting, and no message starts the processing of
\* a video while the user is in that state.
C39_MusicDialogue ==
    [][/\ Sends("/music") => User \in waiting_for_music'
       /\ (User \in waiting_for_music /\ Sends("audio")) =>
             /\ User \notin waiting_for_music'
             /\ StoredMusic' = "temp_music.mp3"
       /\ (User \in waiting_for_music /\ Sends("/cancel")) =>
             /\ User \notin waiting_for_music'
             /\ UNCHANGED <<dicts, user_settings>>
       /\ User \in waiting_for_music => handling' = handling]_vars

====
